---- MODULE Spec2Model ----
(***************************************************************************)
(* Orchestration loop of Agent.Run (bua.go): the loop that folds the       *)
(* runner's stream of events (text, function calls, function responses,    *)
(* errors) into a Result, with the rate-limit sleep and full-run retry.    *)
(***************************************************************************)
EXTENDS Integers, Sequences, FiniteSets, TLC

\* ---------------------------------------------------------------- bounds
\* Parts the runner delivers in one attempt before the stream must end.
MaxParts == 4
\* Horizon of the retry counter; the code itself has no limit.
MaxRetries == 2
\* Pages the browser hands out before page creation is no longer asked for.
MaxPages == 3
\* Elements of a page handed to the detection script.
MaxElements == 3

\* ------------------------------------------------- dynamic (any) values
\* A value of Go type `any` is a pair <<dynamic type, printed form>>.
Bool(b) == <<"bool", IF b THEN "true" ELSE "false">>
Str(s) == <<"string", s>>
Num(n) == <<"number", ToString(n)>>
MapRef(name) == <<"map", name>>

IsBool(v) == v[1] = "bool"
IsString(v) == v[1] = "string"
IsMap(v) == v[1] = "map"

\* A Go map[string]any is a function whose domain is the set of keys present.
EmptyMap == [k \in {} |-> Str("")]
Has(m, k) == k \in DOMAIN m
MapSet(m, k, v) == (k :> v) @@ m
MapDelete(m, k) == [x \in (DOMAIN m) \ {k} |-> m[x]]

\* Structured payloads a done call can carry in its data argument.
PayloadMap(name) ==
    CASE name = "P1" -> ("k" :> Str("v1"))
      [] name = "P2" -> ("k" :> Str("v2")) @@ ("summary" :> Str("s0"))
      [] OTHER -> EmptyMap

\* ------------------------------------------------------ pure functions
truncateString(s, maxLen) ==
    IF Len(s) <= maxLen THEN s
    ELSE IF maxLen <= 3 THEN SubSeq(s, 1, maxLen)
    ELSE SubSeq(s, 1, maxLen - 3) \o "..."

\* strings.Contains
Contains(s, sub) ==
    \E i \in 1..(Len(s) - Len(sub) + 1) : SubSeq(s, i, i + Len(sub) - 1) = sub

\* The guard of parseRateLimitDelay: its second result.
IsRateLimit(errMsg) ==
    Contains(errMsg, "429") \/ Contains(errMsg, "RESOURCE_EXHAUSTED")

\* ------------------------------------------------------------- inputs
LongText == "abcdefghijklmnopqrstuvwxyz0123456789"

NoCall == [Name |-> "", Args |-> EmptyMap]
NoResp == [Name |-> "", Response |-> EmptyMap]

Calls ==
    { [Name |-> "click",
       Args |-> ("element_index" :> Num(0)) @@ ("reasoning" :> Str("r1"))],
      [Name |-> "click",
       Args |-> ("element_index" :> Num(1)) @@ ("reason" :> Str("r2"))],
      [Name |-> "type_text",
       Args |-> ("element_index" :> Num(0)) @@ ("text" :> Str(LongText))
                @@ ("reasoning" :> Num(7)) @@ ("reason" :> Str("r2"))],
      [Name |-> "get_page_state", Args |-> EmptyMap],
      [Name |-> "done",
       Args |-> ("success" :> Bool(TRUE)) @@ ("summary" :> Str("s1"))
                @@ ("data" :> MapRef("P2"))],
      [Name |-> "done", Args |-> ("success" :> Bool(TRUE))],
      [Name |-> "done",
       Args |-> ("success" :> Bool(FALSE)) @@ ("summary" :> Str("s1"))
                @@ ("data" :> MapRef("P1"))],
      [Name |-> "done",
       Args |-> ("success" :> Str("yes")) @@ ("data" :> Str("raw"))],
      [Name |-> "request_human_takeover", Args |-> ("reason" :> Str("r2"))] }

ToolNames == {c.Name : c \in Calls}

Resps ==
    { [Name |-> n, Response |-> ("success" :> Bool(TRUE))] : n \in ToolNames }
    \cup { [Name |-> "click", Response |-> ("success" :> Bool(FALSE))],
           [Name |-> "click", Response |-> EmptyMap],
           [Name |-> "click", Response |-> ("success" :> Str("true"))] }

Texts == {"t1"}

\* genai.Part: Text, FunctionCall and FunctionResponse, each possibly unset.
Parts ==
    { [Text |-> t, Call |-> NoCall, Resp |-> NoResp] : t \in Texts }
    \cup { [Text |-> "", Call |-> c, Resp |-> NoResp] : c \in Calls }
    \cup { [Text |-> "", Call |-> NoCall, Resp |-> r] : r \in Resps }

NoPart == [Text |-> "", Call |-> NoCall, Resp |-> NoResp]

Errs == { "empty response",
          "Error 429: Please retry in 12.5s.",
          "connection reset" }

\* ---------------------------------------------------------------- state
VARIABLES
    pc,                      \* position of Run: entry, running, sleeping, returned, failed
    result,                  \* the *Result under construction / returned
    pendingSteps,            \* map tool name -> Step
    doneToolCalled,
    humanTakeoverRequested,
    lastResponse,
    doneSummary,
    sessionID,               \* id of the session of the current attempt
    sessionsCreated,         \* sessions the session service has created
    ctxDone,                 \* the caller's context is cancelled
    event,                   \* the loop variables (event, err) last delivered
    nparts,                  \* parts delivered so far in this attempt
    outstanding,             \* runner side: calls issued and not yet answered, per tool
    retries,                 \* recursive Run calls made after a rate-limit sleep
    staleSteps,              \* entries of result.Steps recorded before the last rate-limit error
    exit,                    \* which return statement ended Run
    doneTrueSeen,            \* a done call with success=true was observed in this attempt
    errAfterDoneTrue         \* an error was delivered after such a call

\* The variables of Agent.Run.
runVars == << pc, result, pendingSteps, doneToolCalled, humanTakeoverRequested,
              lastResponse, doneSummary, sessionID, sessionsCreated, ctxDone,
              event, nparts, outstanding, retries, staleSteps, exit,
              doneTrueSeen, errAfterDoneTrue >>

\* parseRateLimitDelay, called on its own.
VARIABLES
    rateLimitMsg,            \* the error text handed to parseRateLimitDelay, in pieces
    parsed                   \* what the call returned: (delay in ms, ok)

parseVars == << rateLimitMsg, parsed >>

\* The tab registry of Browser.
VARIABLES
    pages,                   \* b.pages: tab id -> page handle
    activeTabID,             \* b.activeTabID, "" when unset
    page,                    \* b.page, the legacy single page; 0 is nil
    pagesCreated,            \* page handles the browser has handed out
    closedPages,             \* handles on which Close was called
    loaded,                  \* handle -> URL last sent to that page
    tabCall                  \* the last registry call and what it returned

tabVars == << pages, activeTabID, page, pagesCreated, closedPages, loaded,
              tabCall >>

\* The callers of the page operations of Browser.
VARIABLES
    pageCall,                \* the page operation in progress or last returned
    ops                      \* protocol commands that operation has sent, in order

execVars == << pageCall, ops >>

\* The detection script of FindScrollableModal, run on its own.
VARIABLES
    dom,                     \* the elements of the page, in document order
    detected                 \* what the script returned

modalVars == << dom, detected >>

\* Action highlighting of Browser.
VARIABLES
    headless,                \* Config.Headless of the agent that owns the browser
    highlightEnabled,        \* b.highlightEnabled
    highlightDelay,          \* b.highlightDelay, in ms
    highlighter,             \* b.highlighter: nil, or the page it draws on, enabled, delay
    enabledBy,               \* who last assigned b.highlightEnabled
    shown                    \* the last highlighted operation and what it did to the page

highlightVars == << headless, highlightEnabled, highlightDelay, highlighter,
                    enabledBy, shown >>

\* A wait for the page to become stable, made on behalf of an action.
VARIABLES
    stabilityWait            \* the wait in progress or last returned

waitVars == << stabilityWait >>

\* One ElementMap and its callers.
VARIABLES
    elements,                \* em.Elements, in the order added
    indexMap,                \* em.indexMap: index -> element
    adds,                    \* Add calls made on the map
    lookup,                  \* the last ByIndex call and what it returned
    rendered                 \* the last ToTokenString call and the lines it produced

elementVars == << elements, indexMap, adds, lookup, rendered >>

\* The tool handlers of BrowserAgent, as far as screenshots go.
VARIABLES
    agentConfig,             \* a.config: TextOnly, ShowAnnotations, ScreenshotMode
    toolCall                 \* the last tool call: screenshots captured, response

shotVars == << agentConfig, toolCall >>

\* The agent loop of one run, counted.
VARIABLES
    maxIterations,           \* a.config.MaxIterations of the BrowserAgent
    iterations,              \* iterations of the loop made in this run
    loopState                \* running, or how the loop ended

loopVars == << maxIterations, iterations, loopState >>

\* One MultiBrowserTool.
VARIABLES
    maxConcurrentBrowsers,   \* mbt.config.MaxConcurrentBrowsers
    instances,               \* mbt.instances: browser id -> agent
    startedAgents,           \* agents whose browser was started and not closed
    agentsMade,              \* agents bua.New has made for the tool
    multiOut                 \* the output of the last request

multiVars == << maxConcurrentBrowsers, instances, startedAgents, agentsMade, multiOut >>

\* The lock of Browser and the callers that use it.
VARIABLES
    mu,                      \* b.mu: the writer holding it, the readers holding it
    calls,                   \* caller -> the Browser method it is in and where
    lastAccess               \* the last access to b.pages, b.activeTabID or b.page

lockVars == << mu, calls, lastAccess >>

\* One bua.Agent and the goroutines calling its methods.
VARIABLES
    theAgent,                \* a.closed and which of a.browser, a.browserAgent,
                             \* a.sessionService, a.runner are set; the state of
                             \* the rod connection of a.browser
    agentCalls,              \* caller -> where it is in Agent.Run
    agentRet,                \* the last return of an Agent method
    driven                   \* the last use of a.browser by an Agent method

facadeVars == << theAgent, agentCalls, agentRet, driven >>

\* createTabLocked, statement by statement.
VARIABLES
    viewport,                \* b.config.Viewport != nil
    creating,                \* where the call is, its url and its page
    pageSteps                \* page handle -> the protocol commands it was sent

createVars == << viewport, creating, pageSteps >>

\* The list_tabs tool.
VARIABLES
    listing                  \* where listTabsHandler is, tabs, its output

listVars == << listing >>

\* The scroll tool.
VARIABLES
    scrollCall               \* the last scroll request and what became of it

scrollVars == << scrollCall >>

\* The components added last.
lateVars == << facadeVars, createVars, listVars, scrollVars >>

coreVars == << runVars, parseVars, tabVars, execVars, modalVars >>

\* The components modelled on their own, besides the four above.
moreVars == << highlightVars, waitVars, elementVars, shotVars, loopVars,
              multiVars, lockVars, lateVars >>

\* The components modelled before the last ones.
earlierVars ==
    << coreVars, highlightVars, waitVars, elementVars, shotVars, loopVars,
       multiVars, lockVars >>

besidesFacade == << earlierVars, createVars, listVars, scrollVars >>

besidesCreate == << earlierVars, facadeVars, listVars, scrollVars >>

besidesScroll == << earlierVars, facadeVars, createVars, listVars >>

\* The list_tabs tool works on the tab registry.
besidesList ==
    << runVars, parseVars, execVars, modalVars, highlightVars, waitVars,
       elementVars, shotVars, loopVars, multiVars, lockVars, facadeVars,
       createVars, scrollVars >>

besidesHighlight ==
    << coreVars, waitVars, elementVars, shotVars, loopVars, multiVars, lockVars, lateVars >>

besidesWait ==
    << coreVars, highlightVars, elementVars, shotVars, loopVars, multiVars, lockVars, lateVars >>

besidesElements ==
    << coreVars, highlightVars, waitVars, shotVars, loopVars, multiVars, lockVars, lateVars >>

besidesLoop ==
    << coreVars, highlightVars, waitVars, elementVars, shotVars, multiVars, lockVars, lateVars >>

besidesMulti ==
    << coreVars, highlightVars, waitVars, elementVars, shotVars, loopVars, lockVars, lateVars >>

besidesLock ==
    << coreVars, highlightVars, waitVars, elementVars, shotVars, loopVars,
       multiVars, lateVars >>

besidesShots ==
    << coreVars, highlightVars, waitVars, elementVars, loopVars, multiVars, lockVars, lateVars >>

\* Everything that is not a variable of Agent.Run.
otherVars == << parseVars, tabVars, execVars, modalVars, moreVars >>

vars == << runVars, otherVars >>

NotCalled == [Called |-> FALSE, Delay |-> 0, Ok |-> FALSE]

ParseIdle == rateLimitMsg = << "", "", "" >> /\ parsed = NotCalled

NilPage == 0

NoPages == [t \in {} |-> NilPage]

NoTabCall ==
    [Seq |-> 0, Op |-> "", Arg |-> "", Active |-> "", Err |-> "", Ret |-> ""]

\* A Browser as New leaves it: no tab, no page.
TabsInit ==
    /\ pages = NoPages
    /\ activeTabID = ""
    /\ page = NilPage
    /\ pagesCreated = 0
    /\ closedPages = {}
    /\ loaded = << >>
    /\ tabCall = NoTabCall

NoModal == [Idx |-> -1, Err |-> ""]

\* No page operation has been called yet.
NoCallYet ==
    [Op |-> "", Pc |-> "done", Index |-> -1, Text |-> "", Snapped |-> FALSE,
     Snap |-> {}, ScriptError |-> FALSE, Modal |-> NoModal, Err |-> "",
     Val |-> -1, Found |-> NilPage]

ExecIdle == pageCall = NoCallYet /\ ops = << >>

NotDetected == [Called |-> FALSE, Idx |-> -1]

ModalIdle == dom = << >> /\ detected = NotDetected

NilHighlighter == [Page |-> NilPage, Enabled |-> FALSE, Delay |-> 0]

NothingShown == [Op |-> "", Effects |-> << >>]

\* New's defaults: highlighting on, 300 ms, no highlighter yet.
DefaultHighlightDelay == 300

HighlightsAsNew ==
    /\ highlightEnabled = TRUE
    /\ highlightDelay = DefaultHighlightDelay
    /\ highlighter = NilHighlighter
    /\ enabledBy = "New"
    /\ shown = NothingShown

HighlightIdle == headless = FALSE /\ HighlightsAsNew

NoTimeout == -1

NoWait == [Op |-> "", MaxWait |-> NoTimeout, Elapsed |-> 0, State |-> "idle"]

WaitIdle == stabilityWait = NoWait

NilElement == [Index |-> -1, TagName |-> "", Text |-> "", IsVisible |-> FALSE]

NoLookup == [At |-> -1, Index |-> -1, Ok |-> FALSE, El |-> NilElement]

NotRendered == [At |-> -1, Lines |-> << >>]

\* NewElementMap: no element, an empty index.
NewElementMap ==
    /\ elements = << >>
    /\ indexMap = [i \in {} |-> NilElement]
    /\ adds = 0
    /\ lookup = NoLookup
    /\ rendered = NotRendered

\* The zero Config: screenshots in get_page_state only, no annotations.
ZeroConfig ==
    [TextOnly |-> FALSE, ShowAnnotations |-> FALSE, ScreenshotMode |-> "normal"]

NoToolCall ==
    [Tool |-> "", Success |-> FALSE, Captures |-> << >>, Saved |-> FALSE,
     Screenshot |-> ""]

ShotsIdle == agentConfig = ZeroConfig /\ toolCall = NoToolCall

DefaultMaxIterations == 50

LoopIdle ==
    /\ maxIterations = DefaultMaxIterations
    /\ iterations = 0
    /\ loopState = "running"

DefaultMaxConcurrentBrowsers == 3

NoOutput == [Action |-> "", Success |-> FALSE, BrowserID |-> "", Error |-> ""]

\* NewMultiBrowserTool: no instance yet.
NoInstances ==
    /\ instances = [id \in {} |-> 0]
    /\ startedAgents = {}
    /\ agentsMade = 0
    /\ multiOut = NoOutput

MultiIdle == maxConcurrentBrowsers = DefaultMaxConcurrentBrowsers /\ NoInstances

Callers == { "c1", "c2" }

NoCaller == ""

NotInCall == [Op |-> "", Pos |-> 0]

NoAccess == [Caller |-> NoCaller, Op |-> "", Field |-> "", Write |-> FALSE,
             Held |-> "none"]

\* New: the zero RWMutex, nobody inside a method.
LockIdle ==
    /\ mu = [Writer |-> NoCaller, Readers |-> {}]
    /\ calls = [c \in Callers |-> NotInCall]
    /\ lastAccess = NoAccess

\* bua.New: nothing started, nothing closed.
NewAgent ==
    [closed |-> FALSE, browser |-> FALSE, browserAgent |-> FALSE,
     sessionService |-> FALSE, runner |-> FALSE, rod |-> "none"]

NotRunning == [Pc |-> "idle", AfterClose |-> FALSE]

NoReturn == [Caller |-> NoCaller, Op |-> "", Err |-> "", AfterClose |-> FALSE]

NotDriven == [Caller |-> NoCaller, Op |-> "", Rod |-> "none", AfterClose |-> FALSE]

FacadeIdle ==
    /\ theAgent = NewAgent
    /\ agentCalls = [c \in Callers |-> NotRunning]
    /\ agentRet = NoReturn
    /\ driven = NotDriven

NotCreating == [Pc |-> "idle", Url |-> "", Page |-> NilPage, Err |-> ""]

\* No createTabLocked yet, on a Browser made with a viewport.
CreateIdle ==
    /\ viewport = TRUE
    /\ creating = NotCreating
    /\ pageSteps = << >>

NotListing ==
    [Pc |-> "idle", Open |-> {}, Tabs |-> {}, Active |-> {}, ActiveTab |-> ""]

ListIdle == listing = NotListing

NoScroll ==
    [Called |-> FALSE, Given |-> FALSE, ElementID |-> 0, AutoDetect |-> FALSE,
     Direction |-> "", DeltaY |-> 0, Route |-> "", Target |-> -1,
     Failed |-> FALSE, Success |-> FALSE, ElementScrolled |-> 0]

ScrollIdle == scrollCall = NoScroll

LateIdle == FacadeIdle /\ CreateIdle /\ ListIdle /\ ScrollIdle

\* The components modelled before the last ones, as constructed.
EarlierIdle ==
    /\ ParseIdle
    /\ TabsInit
    /\ ExecIdle
    /\ ModalIdle
    /\ HighlightIdle
    /\ WaitIdle
    /\ NewElementMap
    /\ ShotsIdle
    /\ LoopIdle
    /\ MultiIdle
    /\ LockIdle

MoreIdle ==
    /\ HighlightIdle
    /\ WaitIdle
    /\ NewElementMap
    /\ ShotsIdle
    /\ LoopIdle
    /\ MultiIdle
    /\ LockIdle
    /\ LateIdle

OthersIdle == ParseIdle /\ TabsInit /\ ExecIdle /\ ModalIdle /\ MoreIdle

NoEvent == [Kind |-> "none", Part |-> NoPart, Err |-> ""]

\* The nil *Result: nothing built yet, or nothing returned.
NilResult == [Success |-> FALSE, Steps |-> << >>, Data |-> EmptyMap, Error |-> ""]

NewResultKeepingSteps ==
    [Success |-> TRUE, Steps |-> result.Steps, Data |-> EmptyMap, Error |-> ""]

NewResult == [Success |-> TRUE, Steps |-> << >>, Data |-> EmptyMap, Error |-> ""]

HumanTakeoverError == "human takeover requested - agent could not complete task"
NoDoneError == "agent did not complete task (no done() call)"
CancelledError == "context cancelled while waiting for rate limit"

\* -------------------------------------------------- handling of one part
HasCall(part) == part.Call # NoCall
HasResp(part) == part.Resp # NoResp

\* The Step built from a function call.
CallReasoning(args) ==
    IF Has(args, "reasoning")
    THEN (IF IsString(args["reasoning"]) THEN args["reasoning"][2] ELSE "")
    ELSE IF Has(args, "reason")
    THEN (IF IsString(args["reason"]) THEN args["reason"][2] ELSE "")
    ELSE ""

CallTarget(args) ==
    LET t1 == IF Has(args, "element_index")
              THEN "Element #" \o args["element_index"][2] ELSE ""
        t2 == IF Has(args, "url") /\ IsString(args["url"])
              THEN args["url"][2] ELSE t1
    IN  IF Has(args, "text") /\ IsString(args["text"])
        THEN (IF t2 # ""
              THEN t2 \o " -> \"" \o truncateString(args["text"][2], 30) \o "\""
              ELSE "\"" \o truncateString(args["text"][2], 30) \o "\"")
        ELSE t2

CallStep(call) ==
    [Action |-> call.Name,
     Target |-> CallTarget(call.Args),
     Reasoning |-> CallReasoning(call.Args)]

PendingAfterCall(pend, part) ==
    IF HasCall(part) THEN MapSet(pend, part.Call.Name, CallStep(part.Call))
    ELSE pend

\* The done branch.
DoneCalledAfterCall(d, part) ==
    d \/ (HasCall(part) /\ part.Call.Name = "done")

DataAfterDone(data, args) ==
    IF Has(args, "data") /\ IsMap(args["data"])
    THEN PayloadMap(args["data"][2]) ELSE data

SuccessIgnoringArgument(s, args) == s

SuccessAfterDone(s, args) ==
    IF Has(args, "success") /\ IsBool(args["success"])
    THEN args["success"] = Bool(TRUE) ELSE s

SummaryAfterCall(s, part) ==
    IF HasCall(part) /\ part.Call.Name = "done"
       /\ Has(part.Call.Args, "summary") /\ IsString(part.Call.Args["summary"])
    THEN part.Call.Args["summary"][2]
    ELSE IF HasCall(part) /\ part.Call.Name = "request_human_takeover"
            /\ Has(part.Call.Args, "reason") /\ IsString(part.Call.Args["reason"])
    THEN "Human takeover requested: " \o part.Call.Args["reason"][2]
    ELSE s

\* The request_human_takeover branch.
TakeoverAfterCall(h, part) ==
    h \/ (HasCall(part) /\ part.Call.Name = "request_human_takeover")

ResultAfterCall(r, part) ==
    IF ~HasCall(part) THEN r
    ELSE IF part.Call.Name = "done"
    THEN [r EXCEPT !.Data = DataAfterDone(r.Data, part.Call.Args),
                   !.Success = SuccessAfterDone(r.Success, part.Call.Args)]
    ELSE IF part.Call.Name = "request_human_takeover"
    THEN [r EXCEPT !.Success = FALSE]
    ELSE r

\* The function-response branch.
RespSuccess(resp) ==
    Has(resp.Response, "success") /\ resp.Response["success"] = Bool(TRUE)

Promotes(pend, resp) ==
    /\ RespSuccess(resp)
    /\ Has(pend, resp.Name)
    /\ resp.Name # "done"
    /\ resp.Name # "get_page_state"

StepsAfterResp(steps, pend, part) ==
    IF HasResp(part) /\ Promotes(pend, part.Resp)
    THEN Append(steps, pend[part.Resp.Name])
    ELSE steps

\* The cleanup as it would read inside the success branch.
PendingKeptOnFailure(pend, part) ==
    IF HasResp(part) /\ RespSuccess(part.Resp)
    THEN MapDelete(pend, part.Resp.Name) ELSE pend

PendingAfterResp(pend, part) ==
    IF HasResp(part) THEN MapDelete(pend, part.Resp.Name) ELSE pend

\* Result data as built after the loop.
Finalize(r, summary, last) ==
    LET d1 == IF summary # "" THEN MapSet(r.Data, "summary", Str(summary))
              ELSE r.Data
        d2 == IF last # "" /\ DOMAIN d1 = {}
              THEN MapSet(d1, "response", Str(last)) ELSE d1
    IN  [r EXCEPT !.Data = d2]

\* ----------------------------------------------------------------- Init
RunInit ==
    /\ pc = "entry"
    /\ result = NilResult
    /\ pendingSteps = EmptyMap
    /\ doneToolCalled = FALSE
    /\ humanTakeoverRequested = FALSE
    /\ lastResponse = ""
    /\ doneSummary = ""
    /\ sessionID = 0
    /\ sessionsCreated = 0
    /\ ctxDone = FALSE
    /\ event = NoEvent
    /\ nparts = 0
    /\ outstanding = [n \in ToolNames |-> 0]
    /\ retries = 0
    /\ staleSteps = 0
    /\ exit = "none"
    /\ doneTrueSeen = FALSE
    /\ errAfterDoneTrue = FALSE

Init == RunInit /\ OthersIdle

\* -------------------------------------------------------------- actions
\* Run up to the loop: session creation and fresh bookkeeping.
RunEnter ==
    /\ UNCHANGED otherVars
    /\ pc = "entry"
    /\ \E createOk \in BOOLEAN :
         IF createOk
         THEN /\ pc' = "running"
              /\ sessionsCreated' = sessionsCreated + 1
              /\ sessionID' = sessionsCreated + 1
              /\ result' = NewResult
              /\ staleSteps' = Len(result'.Steps)
              /\ exit' = exit
         ELSE /\ pc' = "failed"
              /\ exit' = "session"
              /\ result' = NilResult
              /\ staleSteps' = 0
              /\ UNCHANGED << sessionsCreated, sessionID >>
    /\ pendingSteps' = EmptyMap
    /\ doneToolCalled' = FALSE
    /\ humanTakeoverRequested' = FALSE
    /\ lastResponse' = ""
    /\ doneSummary' = ""
    /\ event' = NoEvent
    /\ nparts' = 0
    /\ outstanding' = [n \in ToolNames |-> 0]
    /\ doneTrueSeen' = FALSE
    /\ errAfterDoneTrue' = FALSE
    /\ UNCHANGED << ctxDone, retries >>

\* The runner answers only calls it has issued.
Deliverable(part) ==
    HasResp(part) =>
        outstanding[part.Resp.Name]
          + (IF HasCall(part) /\ part.Call.Name = part.Resp.Name THEN 1 ELSE 0) > 0

OutstandingAfter(o, part) ==
    [n \in ToolNames |->
        o[n] + (IF HasCall(part) /\ part.Call.Name = n THEN 1 ELSE 0)
             - (IF HasResp(part) /\ part.Resp.Name = n THEN 1 ELSE 0)]

\* One iteration of the inner loop over event.Content.Parts.
ProcessPart(part) ==
    /\ UNCHANGED otherVars
    /\ pc = "running"
    /\ nparts < MaxParts
    /\ Deliverable(part)
    /\ LET pend1 == PendingAfterCall(pendingSteps, part)
           r1 == ResultAfterCall(result, part)
       IN  /\ result' = [r1 EXCEPT !.Steps = StepsAfterResp(r1.Steps, pend1, part)]
           /\ pendingSteps' = PendingAfterResp(pend1, part)
    /\ lastResponse' = IF part.Text # "" THEN part.Text ELSE lastResponse
    /\ doneToolCalled' = DoneCalledAfterCall(doneToolCalled, part)
    /\ humanTakeoverRequested' = TakeoverAfterCall(humanTakeoverRequested, part)
    /\ doneSummary' = SummaryAfterCall(doneSummary, part)
    /\ event' = [Kind |-> "part", Part |-> part, Err |-> ""]
    /\ nparts' = nparts + 1
    /\ outstanding' = OutstandingAfter(outstanding, part)
    /\ doneTrueSeen' = (doneTrueSeen \/
                          (HasCall(part) /\ part.Call.Name = "done"
                           /\ Has(part.Call.Args, "success")
                           /\ part.Call.Args["success"] = Bool(TRUE)))
    /\ UNCHANGED << pc, sessionID, sessionsCreated, ctxDone, retries,
                    staleSteps, exit, errAfterDoneTrue >>

\* The branches of `if err != nil`, in source order.
ErrNeverSwallowed == FALSE

ErrSwallowed == doneToolCalled /\ result.Success
ErrTakeover == ~ErrSwallowed /\ humanTakeoverRequested
ErrNoDone(err) ==
    ~ErrSwallowed /\ ~ErrTakeover /\ err = "empty response" /\ Len(result.Steps) > 0
ErrRateLimit(err) ==
    ~ErrSwallowed /\ ~ErrTakeover /\ ~ErrNoDone(err) /\ IsRateLimit(err)

GenericErrorWithoutText(r, err) == [r EXCEPT !.Success = FALSE]

GenericErrorResult(r, err) == [r EXCEPT !.Success = FALSE, !.Error = err]

StreamError(err) ==
    /\ UNCHANGED otherVars
    /\ pc = "running"
    /\ event' = [Kind |-> "error", Part |-> NoPart, Err |-> err]
    /\ errAfterDoneTrue' = (errAfterDoneTrue \/ doneTrueSeen)
    /\ IF ErrSwallowed
       THEN UNCHANGED << pc, result, exit, staleSteps >>
       ELSE IF ErrTakeover
       THEN /\ result' = Finalize([result EXCEPT !.Success = FALSE,
                                                 !.Error = HumanTakeoverError],
                                  doneSummary, lastResponse)
            /\ pc' = "returned"
            /\ exit' = "takeover"
            /\ UNCHANGED staleSteps
       ELSE IF ErrNoDone(err)
       THEN /\ result' = Finalize([result EXCEPT !.Success = FALSE,
                                                 !.Error = NoDoneError],
                                  doneSummary, lastResponse)
            /\ pc' = "returned"
            /\ exit' = "nodone"
            /\ UNCHANGED staleSteps
       ELSE IF ErrRateLimit(err)
       THEN /\ pc' = "sleeping"
            /\ staleSteps' = Len(result.Steps)
            /\ UNCHANGED << result, exit >>
       ELSE /\ result' = GenericErrorResult(result, err)
            /\ pc' = "returned"
            /\ exit' = "error"
            /\ UNCHANGED staleSteps
    /\ UNCHANGED << pendingSteps, doneToolCalled, humanTakeoverRequested,
                    lastResponse, doneSummary, sessionID, sessionsCreated,
                    ctxDone, nparts, outstanding, retries, doneTrueSeen >>

\* The stream ends without an error: the code after the loop.
StreamEnd ==
    /\ UNCHANGED otherVars
    /\ pc = "running"
    /\ result' = Finalize(result, doneSummary, lastResponse)
    /\ pc' = "returned"
    /\ exit' = "end"
    /\ event' = [Kind |-> "end", Part |-> NoPart, Err |-> ""]
    /\ UNCHANGED << pendingSteps, doneToolCalled, humanTakeoverRequested,
                    lastResponse, doneSummary, sessionID, sessionsCreated,
                    ctxDone, nparts, outstanding, retries, staleSteps,
                    doneTrueSeen, errAfterDoneTrue >>

\* select: case <-ctx.Done()
SleepCancelled ==
    /\ UNCHANGED otherVars
    /\ pc = "sleeping"
    /\ ctxDone
    /\ result' = [result EXCEPT !.Success = FALSE, !.Error = CancelledError]
    /\ pc' = "returned"
    /\ exit' = "cancel"
    /\ UNCHANGED << pendingSteps, doneToolCalled, humanTakeoverRequested,
                    lastResponse, doneSummary, sessionID, sessionsCreated,
                    ctxDone, event, nparts, outstanding, retries, staleSteps,
                    doneTrueSeen, errAfterDoneTrue >>

\* select: case <-time.After(delay + 2s), then return a.Run(ctx, prompt)
SleepIgnoresContext == TRUE

SleepWakes == ~ctxDone

SleepElapsed ==
    /\ UNCHANGED otherVars
    /\ pc = "sleeping"
    /\ SleepWakes
    /\ retries < MaxRetries
    /\ retries' = retries + 1
    /\ pc' = "entry"
    /\ UNCHANGED << result, pendingSteps, doneToolCalled, humanTakeoverRequested,
                    lastResponse, doneSummary, sessionID, sessionsCreated,
                    ctxDone, event, nparts, outstanding, staleSteps, exit,
                    doneTrueSeen, errAfterDoneTrue >>

\* The caller cancels the context.
CancelCtx ==
    /\ UNCHANGED otherVars
    /\ pc \in {"entry", "running", "sleeping"}
    /\ ~ctxDone
    /\ ctxDone' = TRUE
    /\ UNCHANGED << pc, result, pendingSteps, doneToolCalled,
                    humanTakeoverRequested, lastResponse, doneSummary,
                    sessionID, sessionsCreated, event, nparts, outstanding,
                    retries, staleSteps, exit, doneTrueSeen, errAfterDoneTrue >>

Next ==
    \/ RunEnter
    \/ \E part \in Parts : ProcessPart(part)
    \/ \E err \in Errs : StreamError(err)
    \/ StreamEnd
    \/ SleepCancelled
    \/ SleepElapsed
    \/ CancelCtx

Spec == Init /\ [][Next]_vars

TypeOK ==
    /\ pc \in {"entry", "running", "sleeping", "returned", "failed"}
    /\ result.Success \in BOOLEAN
    /\ DOMAIN pendingSteps \subseteq ToolNames
    /\ nparts \in 0..MaxParts
    /\ retries \in 0..MaxRetries

\* ------------------------------------------------------------- properties
\* A step of ProcessPart that delivered a part carrying a function response.
RespDelivered ==
    /\ pc = "running"
    /\ nparts' = nparts + 1
    /\ event'.Kind = "part"
    /\ HasResp(event'.Part)

\* A step of ProcessPart that delivered a done call.
DoneDelivered ==
    /\ pc = "running"
    /\ nparts' = nparts + 1
    /\ event'.Kind = "part"
    /\ HasCall(event'.Part)
    /\ event'.Part.Call.Name = "done"

\* A step of StreamError that delivered an error not seen in the previous iteration,
\* or one that left the loop.
ErrDelivered ==
    /\ pc = "running"
    /\ event'.Kind = "error"
    /\ (event' # event \/ pc' # pc)

\* C1: when the stream of a run has ended and no done call was observed in it,
\* the returned Result has Success = FALSE.
C1_NoDoneMeansFailed ==
    (pc = "returned" /\ ~doneToolCalled) => ~result.Success

\* C2: when a request_human_takeover call was observed in the run, the returned
\* Result has Success = FALSE, whatever came later in the stream.
C2_TakeoverIsTerminalFailure ==
    (pc = "returned" /\ humanTakeoverRequested) => ~result.Success

\* C3: a function response appends exactly one Step, with the tool's name as
\* its action, if and only if it reports success = true and the tool is
\* neither done nor get_page_state; otherwise it appends nothing.
C3_StepIffSuccessfulResponse ==
    [][ RespDelivered =>
          LET r == event'.Part.Resp
              n == Len(result.Steps)
          IN  IF RespSuccess(r) /\ r.Name \notin {"done", "get_page_state"}
              THEN /\ Len(result'.Steps) = n + 1
                   /\ SubSeq(result'.Steps, 1, n) = result.Steps
                   /\ result'.Steps[n + 1].Action = r.Name
              ELSE result'.Steps = result.Steps ]_vars

\* C4: processing a done call sets Result.Success to the boolean success
\* argument and Result.Data to the map given as the data argument.
C4_DoneSetsSuccessAndData ==
    [][ DoneDelivered =>
          LET args == event'.Part.Call.Args
          IN  /\ (Has(args, "success") /\ IsBool(args["success"]))
                    => (result'.Success = (args["success"] = Bool(TRUE)))
              /\ (Has(args, "data") /\ IsMap(args["data"]))
                    => (result'.Data = PayloadMap(args["data"][2]))
              /\ doneToolCalled' ]_vars

C4_Witness ==
    /\ pc = "running"
    /\ event.Kind = "part"
    /\ event.Part.Call.Name = "done"
    /\ Has(event.Part.Call.Args, "data")
    /\ ~result.Success
    /\ result.Data = PayloadMap("P1")
    /\ Len(result.Steps) > 0

\* C5 as stated: whenever a rate-limit error interrupted the run (the loop went
\* to sleep), the Result finally returned holds no Step recorded before it.
C5_RateLimitAlwaysDiscardsSteps ==
    (pc = "returned" /\ (retries > 0 \/ exit = "cancel")) => staleSteps = 0

\* C5 amended: every (re)start of the loop runs in a session created for it
\* with an empty step history, and a Result returned after a retry, other than
\* by cancellation of a later sleep, holds no Step recorded before the
\* rate-limit error.
C5_RestartDiscardsSteps ==
    [][ /\ (pc = "entry" /\ pc' = "running")
            => /\ sessionID' # sessionID
               /\ sessionID' > sessionsCreated
               /\ result'.Steps = << >>
               /\ staleSteps' = 0
               /\ pendingSteps' = EmptyMap
        /\ (pc = "sleeping" /\ ~ctxDone /\ pc' # pc) => pc' = "entry"
        /\ (pc' = "returned" /\ retries' > 0 /\ exit' # "cancel")
            => staleSteps' = 0 ]_vars

C5_Witness ==
    /\ pc = "returned"
    /\ retries > 0
    /\ exit = "end"
    /\ sessionID = retries + 1
    /\ Len(result.Steps) > 0
    /\ staleSteps = 0

\* C6: the retries one Run call performs stay below a fixed limit: they never
\* reach the horizon MaxRetries, even when every attempt ends in a rate-limit
\* error.
C6_RetriesBounded ==
    retries < MaxRetries

\* C7: when the context is cancelled during the rate-limit sleep, Run makes no
\* retry and returns Success = FALSE with the cancellation error.
C7_CancelDuringSleep ==
    [][ (pc = "sleeping" /\ ctxDone /\ pc' # pc)
          => /\ pc' = "returned"
             /\ ~result'.Success
             /\ result'.Error = CancelledError
             /\ retries' = retries
             /\ sessionsCreated' = sessionsCreated ]_vars

C7_Witness ==
    /\ pc = "returned"
    /\ exit = "cancel"
    /\ ctxDone
    /\ ~result.Success
    /\ result.Error = CancelledError

\* C8 as stated: an error that is not a rate-limit error and arrives before
\* any successful done ends the run, without retry, with Success = FALSE and
\* Error equal to the error's text. Stated here for errors that arrive before
\* any done call at all, which are all before any successful one.
C8_AnyOtherErrorSurfacedRaw ==
    [][ (ErrDelivered /\ ~IsRateLimit(event'.Err) /\ ~doneToolCalled)
          => /\ pc' = "returned"
             /\ ~result'.Success
             /\ result'.Error = event'.Err
             /\ retries' = retries ]_vars

\* C8 amended: an error that is not a rate-limit error, arriving when the
\* error is not swallowed (no done call observed with Success still TRUE), no
\* human takeover was requested, and it is not "empty response" after at least
\* one recorded Step, ends the run without retry with Success = FALSE and
\* Error equal to the error's text.
C8_OtherErrorSurfacedRaw ==
    [][ ( /\ ErrDelivered
          /\ ~IsRateLimit(event'.Err)
          /\ ~(doneToolCalled /\ result.Success)
          /\ ~humanTakeoverRequested
          /\ ~(event'.Err = "empty response" /\ Len(result.Steps) > 0) )
          => /\ pc' = "returned"
             /\ ~result'.Success
             /\ result'.Error = event'.Err
             /\ result'.Steps = result.Steps
             /\ retries' = retries
             /\ sessionsCreated' = sessionsCreated ]_vars

C8_Witness ==
    /\ pc = "returned"
    /\ exit = "error"
    /\ event.Err = "connection reset"
    /\ result.Error = "connection reset"
    /\ ~result.Success
    /\ Len(result.Steps) > 0

C10_FailureHasError ==
    (pc = "returned" /\ ~result.Success) => result.Error # ""

\* ==================================================== parseRateLimitDelay
\* ------------------------------------------------------- regexp matching
CharAt(s, i) == SubSeq(s, i, i)

IsDigit(c) == \E i \in 1..10 : CharAt("0123456789", i) = c

DigitValue(c) == (CHOOSE i \in 1..10 : CharAt("0123456789", i) = c) - 1

\* The literal lit stands in s at position i.
HasPrefixAt(s, i, lit) ==
    /\ i >= 1
    /\ i + Len(lit) - 1 <= Len(s)
    /\ SubSeq(s, i, i + Len(lit) - 1) = lit

\* \d+ is greedy: the position after the longest run of digits from i on.
RECURSIVE DigitRunEnd(_, _)
DigitRunEnd(s, i) ==
    IF i <= Len(s) /\ IsDigit(CharAt(s, i)) THEN DigitRunEnd(s, i + 1) ELSE i

\* `retry in (\d+(?:\.\d+)?)s` tried at position i: the capture, "" if none.
MatchRetryIn(s, i) ==
    LET d0 == i + Len("retry in ")
        d1 == DigitRunEnd(s, d0)
        f0 == d1 + 1
        f1 == DigitRunEnd(s, f0)
    IN  IF ~HasPrefixAt(s, i, "retry in ") \/ d1 = d0 THEN ""
        ELSE IF HasPrefixAt(s, d1, ".") /\ f1 > f0 /\ HasPrefixAt(s, f1, "s")
        THEN SubSeq(s, d0, f1 - 1)
        ELSE IF HasPrefixAt(s, d1, "s") THEN SubSeq(s, d0, d1 - 1)
        ELSE ""

\* `retryDelay:(\d+)s` tried at position i: the capture, "" if none.
MatchRetryDelay(s, i) ==
    LET d0 == i + Len("retryDelay:")
        d1 == DigitRunEnd(s, d0)
    IN  IF HasPrefixAt(s, i, "retryDelay:") /\ d1 > d0 /\ HasPrefixAt(s, d1, "s")
        THEN SubSeq(s, d0, d1 - 1)
        ELSE ""

\* FindStringSubmatch: the capture of the leftmost match, "" if none.
FindRetryIn(s) ==
    LET at == {i \in 1..Len(s) : MatchRetryIn(s, i) # ""}
    IN  IF at = {} THEN ""
        ELSE MatchRetryIn(s, CHOOSE i \in at : \A j \in at : i <= j)

FindRetryDelay(s) ==
    LET at == {i \in 1..Len(s) : MatchRetryDelay(s, i) # ""}
    IN  IF at = {} THEN ""
        ELSE MatchRetryDelay(s, CHOOSE i \in at : \A j \in at : i <= j)

\* ------------------------------------------------------------ conversion
\* strconv.Atoi on a run of digits.
RECURSIVE Atoi(_)
Atoi(d) ==
    IF d = "" THEN 0
    ELSE 10 * Atoi(SubSeq(d, 1, Len(d) - 1)) + DigitValue(CharAt(d, Len(d)))

\* The digits before the point of a capture, and those after it.
WholePart(cap) == SubSeq(cap, 1, DigitRunEnd(cap, 1) - 1)
FractionPart(cap) == SubSeq(cap, DigitRunEnd(cap, 1) + 1, Len(cap))

\* Captures of the inputs whose float64 product seconds*1000 falls just
\* short of the whole number of milliseconds written (1.001 * 1000 is
\* 1000.9999999999999), so that the conversion to Duration loses one.
RoundsShort(cap) == cap \in {"1.001"}

\* time.Duration(seconds*1000) * time.Millisecond, dropping the fraction.
SecondsOnly(cap) == Atoi(WholePart(cap)) * 1000

\* time.Duration(seconds*1000) * time.Millisecond: the conversion to
\* Duration drops what is left of a millisecond.
FloatMillis(cap) ==
    Atoi(WholePart(cap)) * 1000
    + Atoi(SubSeq(FractionPart(cap) \o "000", 1, 3))
    - (IF RoundsShort(cap) THEN 1 ELSE 0)

\* 30 * time.Second, in milliseconds.
DefaultDelay == 30000

parseRateLimitDelay(msg) ==
    IF ~IsRateLimit(msg) THEN [Called |-> TRUE, Delay |-> 0, Ok |-> FALSE]
    ELSE IF FindRetryIn(msg) # ""
    THEN [Called |-> TRUE, Delay |-> FloatMillis(FindRetryIn(msg)), Ok |-> TRUE]
    ELSE IF FindRetryDelay(msg) # ""
    THEN [Called |-> TRUE, Delay |-> Atoi(FindRetryDelay(msg)) * 1000, Ok |-> TRUE]
    ELSE [Called |-> TRUE, Delay |-> DefaultDelay, Ok |-> TRUE]

\* ---------------------------------------------------------------- inputs
\* Error texts are a head, a middle and a tail.
MsgHeads == { "", "Error 429: ", "RESOURCE_EXHAUSTED: ", "Error 500: ",
              "resource_exhausted: " }

MsgMiddles == { "Please retry in 12.5s.", "retry in 7s",
                "Please retry in 29.924233789s.", "retry in 1.001s",
                "retry in 12.s",
                "retry in s", "Retry In 3s", "retry after 5 seconds",
                "quota exceeded", "retryDelay:20s", "retryDelay:2.5s" }

MsgTails == { "", " retryDelay:9s", " retry in 4s" }

MsgText(m) == m[1] \o m[2] \o m[3]

\* --------------------------------------------------------------- actions
ParseInit ==
    /\ RunInit
    /\ rateLimitMsg \in MsgHeads \X MsgMiddles \X MsgTails
    /\ parsed = NotCalled
    /\ TabsInit
    /\ ExecIdle
    /\ ModalIdle
    /\ MoreIdle

ParseCall ==
    /\ ~parsed.Called
    /\ parsed' = parseRateLimitDelay(MsgText(rateLimitMsg))
    /\ UNCHANGED << runVars, rateLimitMsg, tabVars, execVars, modalVars, moreVars >>

ParseNext == ParseCall

SpecParse == ParseInit /\ [][ParseNext]_vars

\* ------------------------------------------------------------ properties
\* What the pieces of an error text say, read by eye.  Delays in
\* microseconds; -1 where the piece names none in either supported shape.
HasSignature(m) == m[1] \in {"Error 429: ", "RESOURCE_EXHAUSTED: "}

NamedMicros(piece) ==
    CASE piece = "Please retry in 12.5s." -> 12500000
      [] piece = "retry in 7s" -> 7000000
      [] piece = "Please retry in 29.924233789s." -> 29924233
      [] piece = "retry in 1.001s" -> 1001000
      [] piece = "retryDelay:20s" -> 20000000
      [] piece = " retryDelay:9s" -> 9000000
      [] piece = " retry in 4s" -> 4000000
      [] OTHER -> -1

NamedDelays(m) == {NamedMicros(m[2]), NamedMicros(m[3])} \ {-1}

\* C11 as stated: parseRateLimitDelay returns (0, false) for a text with
\* neither "429" nor "RESOURCE_EXHAUSTED"; for a text with one of them it
\* returns true with exactly the delay the text names, or 30 s when the text
\* names none.
C11_ReturnsNamedDelay ==
    parsed.Called =>
        IF ~HasSignature(rateLimitMsg) THEN parsed.Delay = 0 /\ ~parsed.Ok
        ELSE /\ parsed.Ok
             /\ IF NamedDelays(rateLimitMsg) = {}
                THEN parsed.Delay = 30000
                ELSE parsed.Delay * 1000 \in NamedDelays(rateLimitMsg)

\* C11 amended: as above, but the delay returned is the named delay to
\* millisecond precision only: never more than the named delay and at most
\* one millisecond less (29.924 s for "retry in 29.924233789s").
C11_ReturnsNamedDelayInMillis ==
    parsed.Called =>
        IF ~HasSignature(rateLimitMsg) THEN parsed.Delay = 0 /\ ~parsed.Ok
        ELSE /\ parsed.Ok
             /\ IF NamedDelays(rateLimitMsg) = {}
                THEN parsed.Delay = 30000
                ELSE \E n \in NamedDelays(rateLimitMsg) :
                        /\ parsed.Delay * 1000 <= n
                        /\ n - parsed.Delay * 1000 <= 1000

\* A 429 text naming 12.5 s has been parsed to (12.5 s, true).
C11_Witness ==
    /\ parsed.Called
    /\ rateLimitMsg = << "Error 429: ", "Please retry in 12.5s.", "" >>
    /\ parsed.Ok
    /\ parsed.Delay = 12500

\* ============================================================ tab registry
TabIDs == {"t1", "t2", "t3"}

Urls == {"u1", "u2"}

\* getActivePageLocked finding no page whatever the registry holds.
AlwaysNilPage == NilPage

\* getActivePageLocked
ActivePage ==
    IF activeTabID # "" /\ activeTabID \in DOMAIN pages
    THEN pages[activeTabID]
    ELSE page

\* One more call has returned; Active is the active tab id it found on entry.
Returned(op, arg, err, ret) ==
    [Seq |-> 1 - tabCall.Seq, Op |-> op, Arg |-> arg, Active |-> activeTabID,
     Err |-> err, Ret |-> ret]

\* createTabLocked past its two failure returns: the page exists and is
\* stored under tabID, the first 8 characters of a random UUID.
CreateTabLocked(tabID, url) ==
    /\ pagesCreated' = pagesCreated + 1
    /\ loaded' = Append(loaded, url)
    /\ pages' = (tabID :> pagesCreated + 1) @@ pages
    /\ activeTabID' = tabID
    /\ page' = pagesCreated + 1
    /\ UNCHANGED closedPages

\* createTabLocked as it would read if it stored the tab before the
\* viewport override.
CreateTabFailsStored(op, url) ==
    \/ /\ tabCall' = Returned(op, url, "failed to create page", "")
       /\ UNCHANGED << pages, activeTabID, page, pagesCreated, closedPages,
                       loaded >>
    \/ /\ pagesCreated < MaxPages
       /\ \E tabID \in TabIDs : CreateTabLocked(tabID, url)
       /\ tabCall' = Returned(op, url, "failed to set viewport", "")

\* createTabLocked returning before the page is stored: page creation
\* failed, or the page was created and the viewport override failed.
CreateTabFails(op, url) ==
    \/ /\ tabCall' = Returned(op, url, "failed to create page", "")
       /\ UNCHANGED << pages, activeTabID, page, pagesCreated, closedPages,
                       loaded >>
    \/ /\ pagesCreated < MaxPages
       /\ pagesCreated' = pagesCreated + 1
       /\ loaded' = Append(loaded, url)
       /\ tabCall' = Returned(op, url, "failed to set viewport", "")
       /\ UNCHANGED << pages, activeTabID, page, closedPages >>

Navigate(url) ==
    /\ UNCHANGED << runVars, parseVars, execVars, modalVars, moreVars >>
    /\ IF ActivePage = NilPage
       THEN \/ CreateTabFails("Navigate", url)
            \/ /\ pagesCreated < MaxPages
               /\ \E tabID \in TabIDs : CreateTabLocked(tabID, url)
               /\ \E err \in {"", "failed to wait for page load"} :
                     tabCall' = Returned("Navigate", url, err, "")
       ELSE \/ /\ tabCall' = Returned("Navigate", url, "failed to navigate", "")
               /\ UNCHANGED << pages, activeTabID, page, pagesCreated,
                               closedPages, loaded >>
            \/ /\ loaded' = [loaded EXCEPT ![ActivePage] = url]
               /\ \E err \in {"", "failed to wait for page load"} :
                     tabCall' = Returned("Navigate", url, err, "")
               /\ UNCHANGED << pages, activeTabID, page, pagesCreated,
                               closedPages >>

NewTab(url) ==
    /\ UNCHANGED << runVars, parseVars, execVars, modalVars, moreVars >>
    /\ \/ CreateTabFails("NewTab", url)
       \/ /\ pagesCreated < MaxPages
          /\ \E tabID \in TabIDs :
                /\ CreateTabLocked(tabID, url)
                /\ \E err \in {"", "page load failed"} :
                      tabCall' = Returned("NewTab", url, err, tabID)

\* MustActivate panics when the protocol call fails; the deferred Unlock
\* still runs and the fields set before it stay set.
ActivateOutcomes == {"", "panic"}

SwitchTab(tabID) ==
    /\ UNCHANGED << runVars, parseVars, execVars, modalVars, moreVars, pagesCreated, closedPages, loaded >>
    /\ IF tabID \notin DOMAIN pages
       THEN /\ tabCall' = Returned("SwitchTab", tabID, "tab not found", "")
            /\ UNCHANGED << pages, activeTabID, page >>
       ELSE /\ activeTabID' = tabID
            /\ page' = pages[tabID]
            /\ \E err \in ActivateOutcomes :
                  tabCall' = Returned("SwitchTab", tabID, err, "")
            /\ UNCHANGED pages

\* The guard as it would read if it let the last tab go.
NeverLastTab == FALSE

\* len(b.pages) <= 1
IsLastTab == Cardinality(DOMAIN pages) <= 1

\* The range loop of CloseTab never entered.
NoPromotion(remaining) == {}

\* The tabs the range loop of CloseTab can come upon first.
PromotedTabs(remaining) == remaining

CloseTab(tabID) ==
    /\ UNCHANGED << runVars, parseVars, execVars, modalVars, moreVars, pagesCreated, loaded >>
    /\ IF tabID \notin DOMAIN pages
       THEN /\ tabCall' = Returned("CloseTab", tabID, "tab not found", "")
            /\ UNCHANGED << pages, activeTabID, page, closedPages >>
       ELSE IF IsLastTab
       THEN /\ tabCall' = Returned("CloseTab", tabID, "cannot close the last tab", "")
            /\ UNCHANGED << pages, activeTabID, page, closedPages >>
       ELSE /\ closedPages' = closedPages \cup {pages[tabID]}
            /\ pages' = [t \in (DOMAIN pages) \ {tabID} |-> pages[t]]
            /\ IF activeTabID = tabID /\ PromotedTabs(DOMAIN pages') # {}
               THEN \E newTabID \in PromotedTabs(DOMAIN pages') :
                       /\ activeTabID' = newTabID
                       /\ page' = pages'[newTabID]
                       /\ \E err \in ActivateOutcomes :
                             tabCall' = Returned("CloseTab", tabID, err, "")
               ELSE /\ UNCHANGED << activeTabID, page >>
                    /\ tabCall' = Returned("CloseTab", tabID, "", "")

\* ListTabs, for the pages whose Info call succeeds.
ListTabs == DOMAIN pages

TabNext ==
    \/ \E url \in Urls : Navigate(url)
    \/ \E url \in Urls : NewTab(url)
    \/ \E tabID \in TabIDs : SwitchTab(tabID)
    \/ \E tabID \in TabIDs : CloseTab(tabID)

SpecTabs == Init /\ [][TabNext]_vars

\* ------------------------------------------------------------ properties
\* This step is a call of op returning.
TabCallStep(op) == tabCall'.Seq # tabCall.Seq /\ tabCall'.Op = op

C13_OneActiveTab ==
    [][ /\ DOMAIN pages' # {} =>
              /\ activeTabID' \in DOMAIN pages'
              /\ page' = pages'[activeTabID']
        /\ ( /\ TabCallStep("CloseTab")
             /\ tabCall'.Arg = activeTabID
             /\ Cardinality(DOMAIN pages) > 1 ) =>
              /\ tabCall'.Arg \notin DOMAIN pages'
              /\ activeTabID' \in (DOMAIN pages) \ {tabCall'.Arg} ]_vars

\* The active tab has been closed while another tab existed.
C13_Witness ==
    /\ tabCall.Op = "CloseTab"
    /\ tabCall.Arg = tabCall.Active
    /\ tabCall.Arg \notin DOMAIN pages
    /\ activeTabID \in DOMAIN pages

\* C14: a successful NewTab adds exactly one tab, whose id differs from
\* every tab id already in the registry, and makes it the active tab; the
\* tabs that existed before stay registered with their pages.
C14_NewTabAddsFreshTab ==
    [][ (TabCallStep("NewTab") /\ tabCall'.Err = "") =>
            /\ tabCall'.Ret \notin DOMAIN pages
            /\ DOMAIN pages' = DOMAIN pages \cup {tabCall'.Ret}
            /\ activeTabID' = tabCall'.Ret
            /\ \A t \in DOMAIN pages : pages'[t] = pages[t] ]_vars

\* The registry has an active tab.
HasActiveTab == activeTabID \in DOMAIN pages

\* C15: Navigate creates a tab only when the registry has no active tab;
\* when it has one, Navigate leaves the set of tabs and the active tab id
\* unchanged and, if it succeeds, has loaded the URL in that tab.
C15_NavigateReusesActiveTab ==
    [][ TabCallStep("Navigate") =>
            IF HasActiveTab
            THEN /\ pages' = pages
                 /\ activeTabID' = activeTabID
                 /\ pagesCreated' = pagesCreated
                 /\ tabCall'.Err = "" => loaded'[pages[activeTabID]] = tabCall'.Arg
            ELSE pages' # pages =>
                    /\ Cardinality(DOMAIN pages') = 1
                    /\ activeTabID' \in DOMAIN pages' ]_vars

\* Navigate has loaded a URL in the active tab of a two-tab registry,
\* another URL than the one the tab was created with.
C15_Witness ==
    /\ tabCall.Op = "Navigate"
    /\ tabCall.Err = ""
    /\ tabCall.Active = activeTabID
    /\ Cardinality(DOMAIN pages) = 2
    /\ HasActiveTab
    /\ loaded[pages[activeTabID]] = tabCall.Arg
    /\ pagesCreated = 2
    /\ loaded[1] # loaded[2]

\* ========================================================= page operations
\* Indices an element map can hold, and the maps a page can yield.
ElementIndices == 0..1

Snapshots == SUBSET ElementIndices

TypedTexts == {"hello world"}

\* A command sent to a page over the protocol.
Command(kind, p, idx, text) ==
    [Kind |-> kind, Page |-> p, Index |-> idx, Text |-> text]

PointerKinds == {"mouseMoved", "mousePressed", "mouseReleased"}

ScrollKinds == {"scrollBy", "mouseWheel"}

NotFoundError(idx) == "element with index " \o ToString(idx) \o " not found"

\* elements.ByIndex taken to succeed whatever the map holds.
ElementAssumedFound(snap, idx) == TRUE

\* elements.ByIndex: the second result.
ElementFound(snap, idx) == idx \in snap

\* Where a call can fail once the element is in hand: at the extraction
\* before it, or at one of its commands.
ClickOutcomes == {"ok", "extract", "moved", "pressed", "released"}

\* Browser.Click on active page p, the page yielding the map snap: the error
\* returned and the commands sent, the failing one included.
ClickResult(p, idx, snap, outcome) ==
    LET moved == Command("mouseMoved", p, idx, "")
        pressed == Command("mousePressed", p, idx, "")
        released == Command("mouseReleased", p, idx, "")
    IN  IF p = NilPage THEN [Err |-> "no active page", Ops |-> << >>]
        ELSE IF outcome = "extract"
        THEN [Err |-> "failed to get element map", Ops |-> << >>]
        ELSE IF ~ElementFound(snap, idx)
        THEN [Err |-> NotFoundError(idx), Ops |-> << >>]
        ELSE IF outcome = "moved"
        THEN [Err |-> "failed to move mouse", Ops |-> << moved >>]
        ELSE IF outcome = "pressed"
        THEN [Err |-> "failed to press mouse", Ops |-> << moved, pressed >>]
        ELSE IF outcome = "released"
        THEN [Err |-> "failed to release mouse",
              Ops |-> << moved, pressed, released >>]
        ELSE [Err |-> "", Ops |-> << moved, pressed, released >>]

\* Whether the map was extracted in a call with this outcome.
TookSnapshot(p, outcome) == p # NilPage /\ outcome # "extract"

Click(elementIndex) ==
    /\ pageCall.Pc = "done"
    /\ \E snap \in Snapshots, outcome \in ClickOutcomes :
          LET r == ClickResult(ActivePage, elementIndex, snap, outcome)
          IN  /\ pageCall' = [NoCallYet EXCEPT
                            !.Op = "Click", !.Index = elementIndex,
                            !.Snapped = TookSnapshot(ActivePage, outcome),
                            !.Snap = IF TookSnapshot(ActivePage, outcome)
                                     THEN snap ELSE {},
                            !.Err = r.Err]
              /\ ops' = r.Ops
    /\ UNCHANGED << runVars, parseVars, tabVars, modalVars, moreVars >>

\* TypeInElement up to its first Unlock: the element is looked up.
TypeInElement(elementIndex, text) ==
    /\ pageCall.Pc = "done"
    /\ ops' = << >>
    /\ \E snap \in Snapshots, extracted \in BOOLEAN :
          LET started == [NoCallYet EXCEPT !.Op = "TypeInElement",
                                           !.Index = elementIndex,
                                           !.Text = text]
          IN  IF ActivePage = NilPage
              THEN pageCall' = [started EXCEPT !.Err = "no active page"]
              ELSE IF ~extracted
              THEN pageCall' = [started EXCEPT !.Err = "failed to get element map"]
              ELSE IF ~ElementFound(snap, elementIndex)
              THEN pageCall' = [started EXCEPT !.Err = NotFoundError(elementIndex)]
              ELSE pageCall' = [started EXCEPT !.Pc = "click",
                                               !.Found = ActivePage]
    /\ UNCHANGED << runVars, parseVars, tabVars, modalVars, moreVars >>

\* The error test after b.Click, as it would read if it let errors pass.
ClickErrorIgnored(r) == FALSE

\* if err := b.Click(ctx, elementIndex); err != nil
ClickFailed(r) == r.Err # ""

\* TypeInElement: the b.Click call, which takes the lock and a map anew.
TypeInElementClick ==
    /\ pageCall.Op = "TypeInElement"
    /\ pageCall.Pc = "click"
    /\ \E snap \in Snapshots, outcome \in ClickOutcomes :
          LET r == ClickResult(ActivePage, pageCall.Index, snap, outcome)
          IN  /\ ops' = ops \o r.Ops
              /\ IF ClickFailed(r)
                 THEN pageCall' = [pageCall EXCEPT !.Pc = "done", !.Err = r.Err]
                 ELSE pageCall' = [pageCall EXCEPT !.Pc = "wait"]
    /\ UNCHANGED << runVars, parseVars, tabVars, modalVars, moreVars >>

\* TypeInElement: waitForStableWithTimeout on the page now active.  The
\* select returns when the page is stable or when maxWait has passed,
\* whichever is first; either way the call goes on.
TypeInElementWait ==
    /\ pageCall.Op = "TypeInElement"
    /\ pageCall.Pc = "wait"
    /\ \E ended \in {"stable", "timeout"} :
          ops' = IF ActivePage # NilPage
                 THEN Append(ops, Command("waitStable", ActivePage, -1, ended))
                 ELSE ops
    /\ pageCall' = [pageCall EXCEPT !.Pc = "type"]
    /\ UNCHANGED << runVars, parseVars, tabVars, modalVars, moreVars >>

\* Browser.Type on active page p: one InsertText carrying the whole text.
TypeResult(p, text, inserted) ==
    IF p = NilPage THEN [Err |-> "no active page", Ops |-> << >>]
    ELSE [Err |-> IF inserted THEN "" ELSE "insert text failed",
          Ops |-> << Command("insertText", p, -1, text) >>]

\* TypeInElement: the closing b.Type call.
TypeInElementType ==
    /\ pageCall.Op = "TypeInElement"
    /\ pageCall.Pc = "type"
    /\ \E inserted \in BOOLEAN :
          LET r == TypeResult(ActivePage, pageCall.Text, inserted)
          IN  /\ ops' = ops \o r.Ops
              /\ pageCall' = [pageCall EXCEPT !.Pc = "done", !.Err = r.Err]
    /\ UNCHANGED << runVars, parseVars, tabVars, modalVars, moreVars >>

\* Browser.Scroll on active page p.
ScrollResult(p, scrolled) ==
    IF p = NilPage THEN [Err |-> "no active page", Ops |-> << >>]
    ELSE [Err |-> IF scrolled THEN "" ELSE "mouse scroll failed",
          Ops |-> << Command("mouseWheel", p, -1, "") >>]

ScrollInElementOutcomes == {"ok", "extract", "eval"}

\* Browser.ScrollInElement on active page p.  The script's own result
\* (false when the element has gone) is dropped by the caller.
ScrollInElementResult(p, idx, snap, outcome) ==
    IF p = NilPage THEN [Err |-> "no active page", Ops |-> << >>]
    ELSE IF outcome = "extract"
    THEN [Err |-> "failed to get element map", Ops |-> << >>]
    ELSE IF ~ElementFound(snap, idx)
    THEN [Err |-> NotFoundError(idx), Ops |-> << >>]
    ELSE [Err |-> IF outcome = "eval" THEN "failed to scroll in element" ELSE "",
          Ops |-> << Command("scrollBy", p, idx, "") >>]

Scroll ==
    /\ pageCall.Pc = "done"
    /\ \E scrolled \in BOOLEAN :
          LET r == ScrollResult(ActivePage, scrolled)
          IN  /\ pageCall' = [NoCallYet EXCEPT !.Op = "Scroll", !.Err = r.Err]
              /\ ops' = r.Ops
    /\ UNCHANGED << runVars, parseVars, tabVars, modalVars, moreVars >>

ScrollInElement(elementIndex) ==
    /\ pageCall.Pc = "done"
    /\ \E snap \in Snapshots, outcome \in ScrollInElementOutcomes :
          LET r == ScrollInElementResult(ActivePage, elementIndex, snap, outcome)
          IN  /\ pageCall' = [NoCallYet EXCEPT !.Op = "ScrollInElement",
                                           !.Index = elementIndex,
                                           !.Err = r.Err]
              /\ ops' = r.Ops
    /\ UNCHANGED << runVars, parseVars, tabVars, modalVars, moreVars >>

\* What the detection script can hand back: -1 or an index it read.
ScriptValues == {-1} \cup ElementIndices

\* FindScrollableModal as it would read if it kept the script's error back.
FindScrollableModalQuiet(p, evaluated, value) ==
    IF p = NilPage \/ ~evaluated THEN [Idx |-> -1, Err |-> ""]
    ELSE [Idx |-> value, Err |-> ""]

\* Browser.FindScrollableModal on active page p: the pair it returns.
FindScrollableModalResult(p, evaluated, value) ==
    IF p = NilPage THEN [Idx |-> -1, Err |-> "no active page"]
    ELSE IF ~evaluated
    THEN [Idx |-> -1, Err |-> "failed to detect scrollable modal"]
    ELSE [Idx |-> value, Err |-> ""]

FindScrollableModal ==
    /\ pageCall.Pc = "done"
    /\ \E evaluated \in BOOLEAN, value \in ScriptValues :
          LET m == FindScrollableModalResult(ActivePage, evaluated, value)
          IN  pageCall' = [NoCallYet EXCEPT
                          !.Op = "FindScrollableModal",
                          !.ScriptError = ActivePage # NilPage /\ ~evaluated,
                          !.Modal = m, !.Err = m.Err, !.Val = m.Idx]
    /\ ops' = << >>
    /\ UNCHANGED << runVars, parseVars, tabVars, modalVars, moreVars >>

\* ScrollInModalAuto: the FindScrollableModal call.
ScrollInModalAuto ==
    /\ pageCall.Pc = "done"
    /\ \E evaluated \in BOOLEAN, value \in ScriptValues :
          pageCall' = [NoCallYet EXCEPT
                      !.Op = "ScrollInModalAuto", !.Pc = "scroll",
                      !.Modal = FindScrollableModalResult(ActivePage,
                                                          evaluated, value)]
    /\ ops' = << >>
    /\ UNCHANGED << runVars, parseVars, tabVars, modalVars, moreVars >>

\* The test on the detector's answer, were it to take index 0 for none.
ModalFoundAboveZero(m) == m.Err = "" /\ m.Idx > 0

\* err == nil and modalIdx >= 0
ModalFound(m) == m.Err = "" /\ m.Idx >= 0

\* ScrollInModalAuto: the one scroll call it goes on to make.
ScrollInModalAutoScroll ==
    /\ pageCall.Op = "ScrollInModalAuto"
    /\ pageCall.Pc = "scroll"
    /\ IF ModalFound(pageCall.Modal)
       THEN \E snap \in Snapshots, outcome \in ScrollInElementOutcomes :
               LET r == ScrollInElementResult(ActivePage, pageCall.Modal.Idx,
                                              snap, outcome)
               IN  /\ ops' = r.Ops
                   /\ pageCall' = [pageCall EXCEPT !.Pc = "done", !.Err = r.Err,
                                           !.Val = pageCall.Modal.Idx]
       ELSE \E scrolled \in BOOLEAN :
               LET r == ScrollResult(ActivePage, scrolled)
               IN  /\ ops' = r.Ops
                   /\ pageCall' = [pageCall EXCEPT !.Pc = "done", !.Err = r.Err,
                                           !.Val = -1]
    /\ UNCHANGED << runVars, parseVars, tabVars, modalVars, moreVars >>

\* A registry of up to two tabs, one of them active, as Navigate and NewTab
\* leave it.
OpenTabs ==
    /\ pages \in { NoPages, ("t1" :> 1), ("t1" :> 1) @@ ("t2" :> 2) }
    /\ pagesCreated = Cardinality(DOMAIN pages)
    /\ activeTabID \in IF DOMAIN pages = {} THEN {""} ELSE DOMAIN pages
    /\ page = IF activeTabID = "" THEN NilPage ELSE pages[activeTabID]
    /\ loaded = [h \in 1..pagesCreated |-> "u1"]
    /\ closedPages = {}
    /\ tabCall = NoTabCall

ExecInit ==
    /\ RunInit
    /\ ParseIdle
    /\ ExecIdle
    /\ ModalIdle
    /\ MoreIdle
    /\ OpenTabs

\* Page operations of one caller, with another caller switching tabs.
ExecNext ==
    \/ \E elementIndex \in ElementIndices : Click(elementIndex)
    \/ \E elementIndex \in ElementIndices, text \in TypedTexts :
          TypeInElement(elementIndex, text)
    \/ TypeInElementClick
    \/ TypeInElementWait
    \/ TypeInElementType
    \/ Scroll
    \/ \E elementIndex \in ElementIndices : ScrollInElement(elementIndex)
    \/ FindScrollableModal
    \/ ScrollInModalAuto
    \/ ScrollInModalAutoScroll
    \/ \E tabID \in TabIDs : SwitchTab(tabID)

SpecExec == ExecInit /\ [][ExecNext]_vars

\* ------------------------------------------------------------ properties
HasReturned(op) == pageCall.Op = op /\ pageCall.Pc = "done"

\* The kinds of the commands sent, in order.
Kinds == [i \in 1..Len(ops) |-> ops[i].Kind]

\* C16: Click fails with the element-not-found error whenever the index is
\* absent from the map extracted inside that call, and has then sent no
\* pointer event to the page.
C16_ClickNotFoundSendsNothing ==
    ( /\ HasReturned("Click")
      /\ pageCall.Snapped
      /\ pageCall.Index \notin pageCall.Snap ) =>
        /\ pageCall.Err =
              "element with index " \o ToString(pageCall.Index) \o " not found"
        /\ \A i \in 1..Len(ops) : ops[i].Kind \notin PointerKinds

\* Click has returned not-found for an index missing from a non-empty map.
C16_Witness ==
    /\ HasReturned("Click")
    /\ pageCall.Snapped
    /\ pageCall.Snap = {0}
    /\ pageCall.Index = 1
    /\ pageCall.Err = "element with index 1 not found"
    /\ ops = << >>

\* C17: in a TypeInElement call an insert comes only after the three mouse
\* events of the click and the stability wait, is the last command, is the
\* only insert and carries the whole text; a call that returns without
\* error has sent exactly click, wait, insert; a call whose click step (or
\* the lookup before it) failed has sent no insert.
C17_ClickWaitInsert ==
    pageCall.Op = "TypeInElement" =>
        /\ \A i \in 1..Len(ops) :
              ops[i].Kind = "insertText" =>
                 /\ i = 5
                 /\ Len(ops) = 5
                 /\ pageCall.Pc = "done"
                 /\ ops[i].Text = pageCall.Text
                 /\ SubSeq(Kinds, 1, 4) =
                       << "mouseMoved", "mousePressed", "mouseReleased",
                          "waitStable" >>
        /\ (pageCall.Pc = "done" /\ pageCall.Err = "") =>
              Kinds = << "mouseMoved", "mousePressed", "mouseReleased",
                         "waitStable", "insertText" >>
        /\ (pageCall.Pc = "done"
              /\ pageCall.Err \notin {"", "insert text failed"}) =>
              \A i \in 1..Len(ops) : ops[i].Kind # "insertText"

\* TypeInElement has returned without error after a wait that ran into its
\* time limit, on a page that was active throughout.
C17_Witness ==
    /\ HasReturned("TypeInElement")
    /\ pageCall.Err = ""
    /\ Len(ops) = 5
    /\ ops[4].Text = "timeout"
    /\ ops[5] = Command("insertText", ops[1].Page, -1, "hello world")

\* C18: a ScrollInModalAuto call sends at most one scroll command and
\* nothing else, exactly one when it returns without error: a scroll inside
\* the element the detector reported when it reported one (an index >= 0
\* and no error), then also the index returned; otherwise a page-level
\* scroll, with -1 returned.
C18_OneScroll ==
    HasReturned("ScrollInModalAuto") =>
        /\ Len(ops) <= 1
        /\ pageCall.Err = "" => Len(ops) = 1
        /\ IF pageCall.Modal.Err = "" /\ pageCall.Modal.Idx >= 0
           THEN /\ pageCall.Val = pageCall.Modal.Idx
                /\ \A i \in 1..Len(ops) :
                      /\ ops[i].Kind = "scrollBy"
                      /\ ops[i].Index = pageCall.Modal.Idx
           ELSE /\ pageCall.Val = -1
                /\ \A i \in 1..Len(ops) : ops[i].Kind = "mouseWheel"

\* The detector reported element 0 and the call scrolled inside it.
C18_Witness ==
    /\ HasReturned("ScrollInModalAuto")
    /\ pageCall.Err = ""
    /\ pageCall.Modal = [Idx |-> 0, Err |-> ""]
    /\ Len(ops) = 1
    /\ ops[1].Kind = "scrollBy"
    /\ ops[1].Index = 0

\* C19 as stated: FindScrollableModal does not fail when the detection
\* script errors: it returns "none" (-1) and no error to its caller.
C19_DetectorNeverFails ==
    (HasReturned("FindScrollableModal") /\ pageCall.ScriptError) =>
        /\ pageCall.Err = ""
        /\ pageCall.Val = -1

\* C19 amended: FindScrollableModal returns -1 together with an error when
\* the detection script errors or no page is active, and the script's value
\* with no error otherwise; ScrollInModalAuto takes an error from it for
\* "none" and scrolls the page.
C19_DetectorFailsWithNone ==
    /\ HasReturned("FindScrollableModal") =>
          /\ pageCall.ScriptError =>
                /\ pageCall.Val = -1
                /\ pageCall.Err = "failed to detect scrollable modal"
          /\ ActivePage = NilPage =>
                /\ pageCall.Val = -1
                /\ pageCall.Err = "no active page"
          /\ pageCall.Err # "" => pageCall.Val = -1
    /\ (HasReturned("ScrollInModalAuto") /\ pageCall.Modal.Err # "") =>
          /\ pageCall.Val = -1
          /\ \A i \in 1..Len(ops) : ops[i].Kind = "mouseWheel"

\* The detection script has failed on an active page.
C19_Witness ==
    /\ HasReturned("FindScrollableModal")
    /\ pageCall.ScriptError
    /\ ActivePage # NilPage
    /\ pageCall.Err = "failed to detect scrollable modal"
    /\ pageCall.Val = -1

\* ==================================================== the detection script
\* What the script reads of an element.  FirstChildScrolls is about the
\* element el.querySelector('*') yields, LaterChildScrolls about any other
\* descendant; Indexed says whether data-bua-index is set, and the index of
\* the element at position i of the page is then i - 1.
Plain ==
    [Role |-> "div", Display |-> TRUE, Visible |-> TRUE, Indexed |-> TRUE,
     Overflow |-> "visible", ScrollHeight |-> 400, ClientHeight |-> 400,
     FirstChildScrolls |-> FALSE, LaterChildScrolls |-> FALSE,
     Overlay |-> FALSE, Width |-> 400, Height |-> 400, InView |-> TRUE]

\* A role=dialog overlay that does not scroll.
DialogStatic == [Plain EXCEPT !.Role = "dialog", !.Overlay = TRUE]

ElementKinds ==
    { Plain,
      DialogStatic,
      \* dialogs whose own content overflows
      [DialogStatic EXCEPT !.Overflow = "auto", !.ScrollHeight = 900],
      [DialogStatic EXCEPT !.Overflow = "auto", !.ScrollHeight = 900,
                           !.Display = FALSE],
      [DialogStatic EXCEPT !.Overflow = "auto", !.ScrollHeight = 900,
                           !.Visible = FALSE],
      [DialogStatic EXCEPT !.Overflow = "auto", !.ScrollHeight = 900,
                           !.Indexed = FALSE],
      \* dialogs that scroll in a descendant only
      [DialogStatic EXCEPT !.FirstChildScrolls = TRUE],
      [DialogStatic EXCEPT !.LaterChildScrolls = TRUE],
      \* overlays: 300 x 300, and 100 x 100
      [Plain EXCEPT !.Overlay = TRUE, !.Overflow = "auto",
                    !.ScrollHeight = 800, !.ClientHeight = 300,
                    !.Width = 300, !.Height = 300],
      [Plain EXCEPT !.Overlay = TRUE, !.Overflow = "scroll",
                    !.ScrollHeight = 300, !.ClientHeight = 100,
                    !.Width = 100, !.Height = 100],
      \* containers in the flow: 1000 px and 50 px to scroll
      [Plain EXCEPT !.Overflow = "auto", !.ScrollHeight = 1400],
      [Plain EXCEPT !.Overflow = "auto", !.ScrollHeight = 450] }

\* The pages: up to MaxElements elements.
Doms == UNION {[1..n -> ElementKinds] : n \in 0..MaxElements}

IndexAt(i) == i - 1

Shown(e) == e.Display /\ e.Visible

\* el.scrollHeight > el.clientHeight || (scrollable && ...), scrollable
\* being el.querySelector('*').
DialogScrolls(e) ==
    \/ e.ScrollHeight > e.ClientHeight
    \/ e.FirstChildScrolls

\* Priority 1: the dialogs at which the loop returns.
IsDialogHit(e) ==
    /\ e.Role = "dialog"
    /\ Shown(e)
    /\ DialogScrolls(e)
    /\ e.Indexed

ScrollableY(e) == e.Overflow \in {"auto", "scroll"}

\* Priority 2: what is pushed, with twice its score.
IsOverlayCandidate(e) ==
    /\ e.Indexed
    /\ ScrollableY(e)
    /\ e.ScrollHeight > e.ClientHeight
    /\ e.Overlay
    /\ e.Display
    /\ e.Width * e.Height > 10000

OverlayScore(e) == 2 * e.Width * e.Height

\* Priority 3: what is pushed, with twice its score.
IsContainerCandidate(e) ==
    /\ e.Indexed
    /\ ScrollableY(e)
    /\ e.ScrollHeight > e.ClientHeight + 100
    /\ e.Display
    /\ e.Width > 200
    /\ e.Height > 200
    /\ e.InView

ContainerScore(e) == (e.ScrollHeight - e.ClientHeight) * e.Width

\* The candidates list after both loops: overlays in document order, then
\* containers in document order.
RECURSIVE OverlayCandidates(_, _)
OverlayCandidates(d, i) ==
    IF i > Len(d) THEN << >>
    ELSE (IF IsOverlayCandidate(d[i])
          THEN << [Idx |-> IndexAt(i), Score |-> OverlayScore(d[i])] >>
          ELSE << >>) \o OverlayCandidates(d, i + 1)

RECURSIVE ContainerCandidates(_, _)
ContainerCandidates(d, i) ==
    IF i > Len(d) THEN << >>
    ELSE (IF IsContainerCandidate(d[i])
          THEN << [Idx |-> IndexAt(i), Score |-> ContainerScore(d[i])] >>
          ELSE << >>) \o ContainerCandidates(d, i + 1)

Candidates(d) == OverlayCandidates(d, 1) \o ContainerCandidates(d, 1)

\* candidates.sort((a, b) => b.score - a.score)[0]: the sort is stable, so
\* of the candidates with the highest score the first pushed comes first.
TopCandidate(c) ==
    c[CHOOSE k \in 1..Len(c) :
         /\ \A j \in 1..Len(c) : c[j].Score <= c[k].Score
         /\ \A j \in 1..(k - 1) : c[j].Score < c[k].Score]

\* The script as a whole.
DetectModal(d) ==
    LET hits == {i \in 1..Len(d) : IsDialogHit(d[i])}
    IN  IF hits # {}
        THEN IndexAt(CHOOSE i \in hits : \A j \in hits : i <= j)
        ELSE IF Candidates(d) # << >>
        THEN TopCandidate(Candidates(d)).Idx
        ELSE -1

ModalInit ==
    /\ RunInit
    /\ ParseIdle
    /\ TabsInit
    /\ ExecIdle
    /\ MoreIdle
    /\ dom \in Doms
    /\ detected = NotDetected

Detect ==
    /\ ~detected.Called
    /\ detected' = [Called |-> TRUE, Idx |-> DetectModal(dom)]
    /\ UNCHANGED << runVars, parseVars, tabVars, execVars, dom, moreVars >>

ModalNext == Detect

SpecModal == ModalInit /\ [][ModalNext]_vars

\* ------------------------------------------------------------ properties
\* A visible role=dialog element that scrolls, itself or in a descendant,
\* and has an index to return.
IsScrollableDialog(e) ==
    /\ e.Role = "dialog"
    /\ e.Display
    /\ e.Visible
    /\ (e.ScrollHeight > e.ClientHeight
          \/ e.FirstChildScrolls \/ e.LaterChildScrolls)
    /\ e.Indexed

\* C20: if the page holds a visible, scrollable role=dialog element, the
\* detector returns the index of such a dialog, whatever overlays and plain
\* containers the page holds besides.
C20_DialogWins ==
    (detected.Called /\ \E i \in 1..Len(dom) : IsScrollableDialog(dom[i])) =>
        \E i \in 1..Len(dom) :
            IsScrollableDialog(dom[i]) /\ detected.Idx = IndexAt(i)

\* C21: when no role=dialog element qualifies and at least one overlay
\* (priority 2) qualifies, the detector returns an overlay of the highest
\* overlay score; a container (priority 3) that is no overlay candidate is
\* returned only when neither a dialog nor an overlay qualifies.
C21_TiersStrictlyOrdered ==
    ( /\ detected.Called
      /\ \A i \in 1..Len(dom) : ~IsScrollableDialog(dom[i])
      /\ \E i \in 1..Len(dom) : IsOverlayCandidate(dom[i]) ) =>
        \E i \in 1..Len(dom) :
            /\ IsOverlayCandidate(dom[i])
            /\ detected.Idx = IndexAt(i)
            /\ \A j \in 1..Len(dom) :
                  IsOverlayCandidate(dom[j]) =>
                     dom[j].Width * dom[j].Height
                        <= dom[i].Width * dom[i].Height

\* ------------------------------------------------- action highlighting

HighlightDelays == { 0, DefaultHighlightDelay, 500 }

HighlightedOps == { "Click", "ClickElement", "ClickAt", "TypeInElement", "Scroll" }

\* Browser.SetHighlightEnabled.
SetHighlightEnabled(enabled) ==
    /\ highlightEnabled' = enabled
    /\ highlighter' = IF highlighter # NilHighlighter
                         THEN [highlighter EXCEPT !.Enabled = enabled]
                         ELSE highlighter
    /\ enabledBy' = "SetHighlightEnabled"
    /\ UNCHANGED << besidesHighlight, headless, highlightDelay, shown >>

\* Browser.SetHighlightDelay.
SetHighlightDelay(d) ==
    /\ highlightDelay' = d
    /\ highlighter' = IF highlighter # NilHighlighter
                         THEN [highlighter EXCEPT !.Delay = d]
                         ELSE highlighter
    /\ UNCHANGED << besidesHighlight, headless, highlightEnabled, enabledBy, shown >>

\* Browser.getHighlighter: the highlighter of the active page, made anew when
\* there is none or the active page changed.
getHighlighter ==
    IF ActivePage = NilPage
       THEN NilHighlighter
       ELSE IF highlighter = NilHighlighter \/ highlighter.Page # ActivePage
               THEN [Page |-> ActivePage, Enabled |-> highlightEnabled,
                     Delay |-> highlightDelay]
               ELSE highlighter

Effect(kind, ms) == [Kind |-> kind, Ms |-> ms]

\* How long a highlight of the operation stays: the delay, half of it for a
\* scroll.
HighlightSleep(h, op) == IF op = "Scroll" THEN h.Delay \div 2 ELSE h.Delay

\* HighlightElement, HighlightCoordinates, HighlightScroll and HighlightType:
\* nothing when disabled; otherwise the styles, the markup, then the sleep.
\* evals is the number of page evaluations that succeed.
HighlightEffects(h, op, evals) ==
    IF ~h.Enabled \/ h.Page = NilPage
       THEN << >>
       ELSE IF evals = 0
               THEN << >>
               ELSE IF evals = 1
                       THEN << Effect("styles", 0) >>
                       ELSE << Effect("styles", 0), Effect("markup", 0),
                               Effect("sleep", HighlightSleep(h, op)) >>

\* Highlighter.RemoveHighlights, deferred by the operation.
RemoveEffects(h) == IF h.Page = NilPage THEN << >> ELSE << Effect("remove", 0) >>

\* The highlighting part of Click, ClickElement, ClickAt, TypeInElement and
\* Scroll. reached is false when the operation returned before it (no active
\* page, snapshot failure, element not found).
Highlighted(op) ==
    \E reached \in BOOLEAN, evals \in 0..2 :
       /\ IF ActivePage = NilPage \/ ~reached
             THEN /\ shown' = [Op |-> op, Effects |-> << >>]
                  /\ UNCHANGED highlighter
             ELSE /\ highlighter' = getHighlighter
                  /\ shown' = [Op |-> op,
                               Effects |-> HighlightEffects(getHighlighter, op, evals)
                                           \o RemoveEffects(getHighlighter)]
       /\ UNCHANGED << besidesHighlight, headless, highlightEnabled, highlightDelay,
                       enabledBy >>

\* Agent.Start: the browser is launched headless or headed as configured and
\* wrapped by New.
HighlightInit ==
    /\ RunInit
    /\ ParseIdle
    /\ ExecIdle
    /\ ModalIdle
    /\ OpenTabs
    /\ WaitIdle
    /\ NewElementMap
    /\ ShotsIdle
    /\ LoopIdle
    /\ MultiIdle
    /\ LockIdle
    /\ LateIdle
    /\ headless \in BOOLEAN
    /\ HighlightsAsNew

HighlightNext ==
    \/ \E op \in HighlightedOps : Highlighted(op)
    \/ \E enabled \in BOOLEAN : SetHighlightEnabled(enabled)
    \/ \E d \in HighlightDelays : SetHighlightDelay(d)
    \/ \E tabID \in TabIDs : SwitchTab(tabID)

SpecHighlight == HighlightInit /\ [][HighlightNext]_vars

Draws(kind) == \E i \in 1..Len(shown.Effects) : shown.Effects[i].Kind = kind

\* C22: when the agent runs headless and nobody switched highlighting on by
\* hand, no operation injects highlight styles or markup into the page or
\* sleeps the highlight delay.
C22_HeadlessShowsNothing ==
    ( headless /\ enabledBy = "New" /\ shown.Op # "" ) =>
        ~Draws("styles") /\ ~Draws("markup") /\ ~Draws("sleep")

\* ------------------------------------------------------ stability waits

\* The cap on the time a wait is followed, in ticks.
MaxTicks == 60

TickMs == 100

\* The actions that wait for stability, and the timeout each wait is given:
\* Navigate and NewTab 5 s, TypeInElement 2 s through
\* waitForStableWithTimeout; the click tool, the wait tool and postAction
\* call Browser.WaitForStable, which has none.
NavigateMaxWait == 5000

TypeMaxWait == 2000

WaitOps == { "Navigate", "NewTab", "TypeInElement", "clickTool", "waitTool",
             "postAction" }

MaxWaitOf(op) ==
    IF op \in { "Navigate", "NewTab" } THEN NavigateMaxWait
    ELSE IF op = "TypeInElement" THEN TypeMaxWait
    ELSE NoTimeout

\* The wait begins: the goroutine calling page.WaitStable is started (or,
\* in Browser.WaitForStable, page.WaitStable is called directly). Without a
\* page both return at once.
StartWait(op) ==
    /\ stabilityWait.State # "waiting"
    /\ \E hasPage \in BOOLEAN :
          stabilityWait' =
              [Op |-> op, MaxWait |-> MaxWaitOf(op), Elapsed |-> 0,
               State |-> IF hasPage THEN "waiting" ELSE "no page"]
    /\ UNCHANGED besidesWait

\* page.WaitStable returns: the page went unchanged for the stability window.
PageStable ==
    /\ stabilityWait.State = "waiting"
    /\ stabilityWait' = [stabilityWait EXCEPT !.State = "stable"]
    /\ UNCHANGED besidesWait

\* time.After(maxWait) fires in the select of waitForStableWithTimeout.
TimeoutReached ==
    /\ stabilityWait.State = "waiting"
    /\ stabilityWait.MaxWait # NoTimeout
    /\ stabilityWait.Elapsed >= stabilityWait.MaxWait
    /\ stabilityWait' = [stabilityWait EXCEPT !.State = "timeout"]
    /\ UNCHANGED besidesWait

\* Time passes while the wait blocks and the page keeps changing. A timer
\* that is due fires before more time passes.
Tick ==
    /\ stabilityWait.State = "waiting"
    /\ stabilityWait.Elapsed < MaxTicks * TickMs
    /\ stabilityWait.MaxWait # NoTimeout =>
          stabilityWait.Elapsed < stabilityWait.MaxWait
    /\ stabilityWait' = [stabilityWait EXCEPT !.Elapsed = @ + TickMs]
    /\ UNCHANGED besidesWait

WaitInit ==
    /\ RunInit
    /\ ParseIdle
    /\ TabsInit
    /\ ExecIdle
    /\ ModalIdle
    /\ HighlightIdle
    /\ NewElementMap
    /\ ShotsIdle
    /\ LoopIdle
    /\ MultiIdle
    /\ LockIdle
    /\ LateIdle
    /\ WaitIdle

WaitNext ==
    \/ \E op \in WaitOps : StartWait(op)
    \/ PageStable
    \/ TimeoutReached
    \/ Tick

SpecWait == WaitInit /\ [][WaitNext]_vars

\* C23: every stability wait made for an action has returned once the
\* longest overall timeout of the program, 5 s, has passed since it began,
\* whether or not the page became stable.
C23_WaitsReturnInTime ==
    stabilityWait.State = "waiting" => stabilityWait.Elapsed <= NavigateMaxWait

\* ---------------------------------------------------------- ElementMap

\* The number of Add calls followed.
MaxAdds == 3

ElementTexts == { "First", "Second" }

\* The elements handed to Add.
SampleElements ==
    [Index : ElementIndices, TagName : {"button"}, Text : ElementTexts,
     IsVisible : BOOLEAN]

\* An index no element carries, besides those some may.
LookupIndices == ElementIndices \cup { 99 }

\* An Add that keeps one element per index.
AddOnce(el) ==
    /\ adds < MaxAdds
    /\ elements' = IF el.Index \in DOMAIN indexMap
                      THEN [k \in 1..Len(elements) |->
                              IF elements[k].Index = el.Index THEN el
                              ELSE elements[k]]
                      ELSE Append(elements, el)
    /\ indexMap' = (el.Index :> el) @@ indexMap
    /\ adds' = adds + 1
    /\ UNCHANGED << besidesElements, lookup, rendered >>

\* ElementMap.Add: the element is appended to the sequence and the index
\* points to it, replacing what it pointed to.
Add(el) ==
    /\ adds < MaxAdds
    /\ elements' = Append(elements, el)
    /\ indexMap' = (el.Index :> el) @@ indexMap
    /\ adds' = adds + 1
    /\ UNCHANGED << besidesElements, lookup, rendered >>

\* ElementMap.Count: the length of the sequence.
Count == Len(elements)

\* A lookup that returns the first element added with the index.
ByIndexFirstAdded(i) ==
    IF i \in DOMAIN indexMap
       THEN [Ok |-> TRUE,
             El |-> elements[CHOOSE k \in 1..Len(elements) :
                                /\ elements[k].Index = i
                                /\ \A j \in 1..(k - 1) : elements[j].Index # i]]
       ELSE [Ok |-> FALSE, El |-> NilElement]

\* ElementMap.ByIndex: the element the index points to, and whether there is
\* one.
ByIndex(i) ==
    IF i \in DOMAIN indexMap
       THEN [Ok |-> TRUE, El |-> indexMap[i]]
       ELSE [Ok |-> FALSE, El |-> NilElement]

ByIndexCall(i) ==
    /\ lookup' = [At |-> Len(elements), Index |-> i, Ok |-> ByIndex(i).Ok,
                  El |-> ByIndex(i).El]
    /\ UNCHANGED << besidesElements, elements, indexMap, adds, rendered >>

\* The line of one element in the text rendering.
TokenLine(el) ==
    "[" \o ToString(el.Index) \o "] " \o el.TagName \o " text=\"" \o el.Text
        \o "\""

RECURSIVE LinesOf(_)
LinesOf(els) ==
    IF els = << >>
       THEN << >>
       ELSE LinesOf(SubSeq(els, 1, Len(els) - 1)) \o << TokenLine(els[Len(els)]) >>

Visible(el) == el.IsVisible

\* A rendering that does not look at visibility.
ToTokenStringOfAll == LinesOf(elements)

\* ElementMap.ToTokenString: the lines of the visible elements, in order.
ToTokenString == LinesOf(SelectSeq(elements, Visible))

ToTokenStringCall ==
    /\ rendered' = [At |-> Len(elements), Lines |-> ToTokenString]
    /\ UNCHANGED << besidesElements, elements, indexMap, adds, lookup >>

ElementInit ==
    /\ RunInit
    /\ ParseIdle
    /\ TabsInit
    /\ ExecIdle
    /\ ModalIdle
    /\ HighlightIdle
    /\ WaitIdle
    /\ ShotsIdle
    /\ LoopIdle
    /\ MultiIdle
    /\ LockIdle
    /\ LateIdle
    /\ NewElementMap

ElementNext ==
    \/ \E el \in SampleElements : Add(el)
    \/ \E i \in LookupIndices : ByIndexCall(i)
    \/ ToTokenStringCall

SpecElements == ElementInit /\ [][ElementNext]_vars

\* C24: after any sequence of Add calls, repeated indices included, Count()
\* is the number of Add calls made.
C24_CountIsNumberOfAdds == Count = adds

\* Some index was added twice.
C24_Witness ==
    /\ adds = MaxAdds
    /\ \E j, k \in 1..Len(elements) :
          j # k /\ elements[j].Index = elements[k].Index

\* The elements the map held when the last lookup was made.
LookedIn == SubSeq(elements, 1, lookup.At)

\* C25: ByIndex(i) reports found exactly when an element with index i was
\* added, and then returns the one added last with that index.
C25_ByIndexFindsLastAdded ==
    lookup.At >= 0 =>
       /\ lookup.Ok <=> \E k \in 1..Len(LookedIn) : LookedIn[k].Index = lookup.Index
       /\ lookup.Ok =>
             \E k \in 1..Len(LookedIn) :
                /\ LookedIn[k].Index = lookup.Index
                /\ \A j \in (k + 1)..Len(LookedIn) : LookedIn[j].Index # lookup.Index
                /\ lookup.El = LookedIn[k]

\* A lookup of an index added twice with different texts.
C25_Witness ==
    /\ lookup.Ok
    /\ \E j, k \in 1..Len(LookedIn) :
          /\ j < k
          /\ LookedIn[j].Index = lookup.Index
          /\ LookedIn[k].Index = lookup.Index
          /\ LookedIn[j] # LookedIn[k]

\* The elements the map held when the last rendering was made.
RenderedFrom == SubSeq(elements, 1, rendered.At)

\* How many of the first k of those elements are visible.
VisibleUpTo(k) == Cardinality({ j \in 1..k : RenderedFrom[j].IsVisible })

\* C26: the text of ToTokenString has one line for each visible element, in
\* order, and no line for an element that is not visible.
C26_OneLinePerVisibleElement ==
    rendered.At >= 0 =>
       /\ Len(rendered.Lines) = VisibleUpTo(Len(RenderedFrom))
       /\ \A k \in 1..Len(RenderedFrom) :
             RenderedFrom[k].IsVisible =>
                rendered.Lines[VisibleUpTo(k)] = TokenLine(RenderedFrom[k])

\* A rendering of a map with a visible and an invisible element.
C26_Witness ==
    /\ rendered.At >= 0
    /\ \E j, k \in 1..Len(RenderedFrom) :
          RenderedFrom[j].IsVisible /\ ~RenderedFrom[k].IsVisible

\* --------------------------------------------- screenshots in the tools

Configs ==
    [TextOnly : BOOLEAN, ShowAnnotations : BOOLEAN,
     ScreenshotMode : {"normal", "smart"}]

\* Agent.Start: the directory of step screenshots is set when annotations
\* are on, and is empty otherwise.
ScreenshotDir(cfg) == IF cfg.ShowAnnotations THEN "screenshots/steps" ELSE ""

\* The tools that call preAction, and those whose response has a
\* screenshot field filled by captureScreenshotForResponse.
PreActionTools == { "click", "type_text", "scroll", "new_tab", "switch_tab" }

ResponseTools == { "click", "type_text", "scroll", "navigate" }

ActionTools == PreActionTools \cup ResponseTools

\* BrowserAgent.preAction: the browser calls that capture a screenshot.
\* mapOk says whether GetElementMap succeeded.
preActionCaptures(cfg, mapOk) ==
    IF ~cfg.ShowAnnotations \/ ~mapOk
       THEN << >>
       ELSE IF ScreenshotDir(cfg) # ""
               THEN << "Screenshot" >>
               ELSE << >>

\* BrowserAgent.captureScreenshotForResponse: the captures it makes and the
\* string it returns.
captureScreenshotForResponse(cfg, mapOk, shotOk) ==
    IF cfg.TextOnly \/ cfg.ScreenshotMode # "smart"
       THEN [Captures |-> << >>, Data |-> ""]
       ELSE IF ~mapOk
               THEN [Captures |-> << >>, Data |-> ""]
               ELSE [Captures |-> << "ScreenshotForLLM" >>,
                     Data |-> IF shotOk THEN "base64" ELSE ""]

NoCapture == [Captures |-> << >>, Data |-> ""]

\* The click, type_text, scroll, navigate, new_tab and switch_tab handlers:
\* preAction where the tool has one, the browser operation, and on success
\* the response with its screenshot field.
ActionTool(tool) ==
    \E preMapOk, preShotOk, opOk, mapOk, shotOk \in BOOLEAN :
       LET pre  == IF tool \in PreActionTools
                      THEN preActionCaptures(agentConfig, preMapOk)
                      ELSE << >>
           resp == IF opOk /\ tool \in ResponseTools
                      THEN captureScreenshotForResponse(agentConfig, mapOk, shotOk)
                      ELSE NoCapture
       IN  /\ toolCall' = [Tool |-> tool, Success |-> opOk,
                           Captures |-> pre \o resp.Captures,
                           Saved |-> pre # << >> /\ preShotOk,
                           Screenshot |-> resp.Data]
           /\ UNCHANGED << besidesShots, agentConfig >>

ExcludeInputs == { "unset", "true", "false" }

\* The get_page_state handler: a screenshot unless TextOnly is set or the
\* call asks to leave it out.
getPageStateHandler(exclude) ==
    \E mapOk, shotOk \in BOOLEAN :
       LET excludeScreenshot == agentConfig.TextOnly \/ exclude = "true"
           captures == IF mapOk /\ ~excludeScreenshot
                          THEN << "ScreenshotForLLM" >>
                          ELSE << >>
       IN  /\ toolCall' = [Tool |-> "get_page_state", Success |-> mapOk,
                           Captures |-> captures, Saved |-> FALSE,
                           Screenshot |-> IF captures # << >> /\ shotOk
                                             THEN "base64" ELSE ""]
           /\ UNCHANGED << besidesShots, agentConfig >>

ShotsInit ==
    /\ RunInit
    /\ ParseIdle
    /\ TabsInit
    /\ ExecIdle
    /\ ModalIdle
    /\ HighlightIdle
    /\ WaitIdle
    /\ NewElementMap
    /\ LoopIdle
    /\ MultiIdle
    /\ LockIdle
    /\ LateIdle
    /\ agentConfig \in Configs
    /\ toolCall = NoToolCall

ShotsNext ==
    \/ \E tool \in ActionTools : ActionTool(tool)
    \/ \E exclude \in ExcludeInputs : getPageStateHandler(exclude)

SpecShots == ShotsInit /\ [][ShotsNext]_vars

\* C27: with TextOnly set, no tool handler captures a screenshot and no tool
\* response carries screenshot data, whatever the other options are.
C27_TextOnlyNoScreenshots ==
    ( agentConfig.TextOnly /\ toolCall.Tool # "" ) =>
        toolCall.Captures = << >> /\ toolCall.Screenshot = ""

\* ------------------------------------------------- the loop, counted

\* The cap on the iterations followed.
MaxLoop == 60

\* Values of Config.MaxIterations handed to agent.New; Agent.Start hands 50.
ConfiguredIterations == { 0, 10, DefaultMaxIterations }

\* agent.New: zero means the default.
NewMaxIterations(configured) ==
    IF configured = 0 THEN DefaultMaxIterations ELSE configured

\* One iteration of the loop of Agent.Run: the runner delivers an event in
\* which the model calls a tool, and the loop records it and goes on. Nothing
\* in the loop reads MaxIterations.
ToolCallEvent ==
    /\ loopState \in { "running", "done called" }
    /\ iterations < MaxLoop
    /\ iterations' = iterations + 1
    /\ \E tool \in { "click", "done" } :
          loopState' = IF tool = "done" THEN "done called" ELSE loopState
    /\ UNCHANGED << besidesLoop, maxIterations >>

\* The runner delivers an error: Run returns.
ErrorEvent ==
    /\ loopState \in { "running", "done called" }
    /\ loopState' = "failed"
    /\ UNCHANGED << besidesLoop, maxIterations, iterations >>

\* The runner's stream ends: the model answered without a tool call.
StreamEnds ==
    /\ loopState \in { "running", "done called" }
    /\ loopState' = IF loopState = "done called" THEN "completed" ELSE "ended"
    /\ UNCHANGED << besidesLoop, maxIterations, iterations >>

LoopInit ==
    /\ RunInit
    /\ ParseIdle
    /\ TabsInit
    /\ ExecIdle
    /\ ModalIdle
    /\ HighlightIdle
    /\ WaitIdle
    /\ NewElementMap
    /\ ShotsIdle
    /\ MultiIdle
    /\ LockIdle
    /\ LateIdle
    /\ \E configured \in ConfiguredIterations :
          maxIterations = NewMaxIterations(configured)
    /\ iterations = 0
    /\ loopState = "running"

LoopNext == ToolCallEvent \/ ErrorEvent \/ StreamEnds

SpecLoop == LoopInit /\ [][LoopNext]_vars

\* C28: the loop of one run makes at most MaxIterations iterations; a model
\* that keeps calling tools and never calls done is stopped by then.
C28_AtMostMaxIterations == iterations <= maxIterations

\* ------------------------------------------------------ MultiBrowserTool

\* The number of agents the tool is followed through.
MaxAgents == 5

ProfileNames == { "", "test" }

StartURLs == { "", "https://example.com" }

\* The profile name createBrowser picks when the request has none.
DefaultProfileName == "browser_" \o ToString(Cardinality(DOMAIN instances) + 1)

RequestedIDs == { "browser_1", "browser_2", "test", "missing" }

Output(action, success, id, err) ==
    [Action |-> action, Success |-> success, BrowserID |-> id, Error |-> err]

\* createBrowser: refused at the limit; otherwise an agent is made, started
\* and, with a start URL, navigated, and stored under its profile name. An
\* agent whose start or navigation failed is closed again.
createBrowser(profile, startURL) ==
    /\ agentsMade < MaxAgents
    /\ IF Cardinality(DOMAIN instances) >= maxConcurrentBrowsers
          THEN /\ multiOut' = Output("create", FALSE, "",
                                     "maximum concurrent browsers reached")
               /\ UNCHANGED << instances, startedAgents, agentsMade >>
          ELSE \E newOk, startOk, navigateOk \in BOOLEAN :
                 LET profileName == IF profile = "" THEN DefaultProfileName
                                                    ELSE profile
                     agent == agentsMade + 1
                 IN  IF ~newOk
                        THEN /\ multiOut' = Output("create", FALSE, "",
                                                   "failed to create browser")
                             /\ UNCHANGED << instances, startedAgents, agentsMade >>
                        ELSE /\ agentsMade' = agent
                             /\ IF ~startOk
                                   THEN /\ multiOut' = Output("create", FALSE, "",
                                                              "failed to start browser")
                                        /\ UNCHANGED << instances, startedAgents >>
                                   ELSE IF startURL # "" /\ ~navigateOk
                                           THEN /\ multiOut' = Output("create", FALSE, "",
                                                                      "failed to navigate")
                                                /\ UNCHANGED << instances, startedAgents >>
                                           ELSE /\ instances' = (profileName :> agent) @@ instances
                                                /\ startedAgents' = startedAgents \cup { agent }
                                                /\ multiOut' = Output("create", TRUE,
                                                                      profileName, "")
    /\ UNCHANGED << besidesMulti, maxConcurrentBrowsers >>

\* executeTasks: runs a task on the instance, which stays.
executeTasks(id) ==
    /\ IF id \notin DOMAIN instances
          THEN multiOut' = Output("execute", FALSE, "", "browser not found")
          ELSE \E outcome \in { "ok", "unsuccessful", "task failed" } :
                  multiOut' = IF outcome = "task failed"
                                 THEN Output("execute", FALSE, "", outcome)
                                 ELSE Output("execute", outcome = "ok", id, "")
    /\ UNCHANGED << besidesMulti, maxConcurrentBrowsers, instances, startedAgents,
                    agentsMade >>

\* closeBrowser: the instance is closed and forgotten.
closeBrowser(id) ==
    /\ IF id \notin DOMAIN instances
          THEN /\ multiOut' = Output("close", FALSE, "", "browser not found")
               /\ UNCHANGED << instances, startedAgents >>
          ELSE /\ startedAgents' = startedAgents \ { instances[id] }
               /\ instances' = [i \in DOMAIN instances \ { id } |-> instances[i]]
               /\ multiOut' = Output("close", TRUE, id, "")
    /\ UNCHANGED << besidesMulti, maxConcurrentBrowsers, agentsMade >>

\* listBrowsers: the ids of the instances.
listBrowsers ==
    /\ multiOut' = Output("list", TRUE, "", "")
    /\ UNCHANGED << besidesMulti, maxConcurrentBrowsers, instances, startedAgents,
                    agentsMade >>

MultiInit ==
    /\ RunInit
    /\ ParseIdle
    /\ TabsInit
    /\ ExecIdle
    /\ ModalIdle
    /\ HighlightIdle
    /\ WaitIdle
    /\ NewElementMap
    /\ ShotsIdle
    /\ LoopIdle
    /\ LockIdle
    /\ LateIdle
    /\ maxConcurrentBrowsers \in 1..DefaultMaxConcurrentBrowsers
    /\ NoInstances

MultiNext ==
    \/ \E profile \in ProfileNames, startURL \in StartURLs :
          createBrowser(profile, startURL)
    \/ \E id \in RequestedIDs : executeTasks(id)
    \/ \E id \in RequestedIDs : closeBrowser(id)
    \/ listBrowsers

SpecMulti == MultiInit /\ [][MultiNext]_vars

\* C29: after any create, execute, close and list requests, the browsers
\* started and not yet closed number at most MaxConcurrentBrowsers.
C29_AtMostMaxConcurrentBrowsers ==
    Cardinality(startedAgents) <= maxConcurrentBrowsers

\* ------------------------------------------------------ lock discipline

St(act, field) == [Act |-> act, Field |-> field]

\* getActivePageLocked reads the active tab id and the page map (the legacy
\* page only when those give nothing).
ReadActivePage == << St("read", "activeTabID"), St("read", "pages") >>

\* What each method does with the lock and the three registry fields, in
\* program order.
Program(op) ==
    CASE op = "Navigate" ->
           << St("Lock", "") >> \o ReadActivePage \o
           << St("write", "pages"), St("write", "activeTabID"),
              St("write", "page"), St("Unlock", "") >>
      [] op = "SwitchTab" ->
           << St("Lock", ""), St("read", "pages"), St("write", "activeTabID"),
              St("write", "page"), St("Unlock", "") >>
      [] op = "CloseTab" ->
           << St("Lock", ""), St("read", "pages"), St("write", "pages"),
              St("read", "activeTabID"), St("write", "activeTabID"),
              St("write", "page"), St("Unlock", "") >>
      [] op = "Close" ->
           << St("Lock", ""), St("write", "pages"), St("write", "activeTabID"),
              St("read", "page"), St("write", "page"), St("Unlock", "") >>
      [] op = "GetURL" ->
           << St("RLock", "") >> \o ReadActivePage \o << St("RUnlock", "") >>
      [] op = "GetActiveTabID" ->
           << St("RLock", ""), St("read", "activeTabID"), St("RUnlock", "") >>
      [] op = "ListTabs" ->
           << St("RLock", ""), St("read", "pages"), St("RUnlock", "") >>
      [] op = "TypeInElement" ->
           << St("Lock", "") >> \o ReadActivePage \o << St("Unlock", "") >> \o
           << St("Lock", "") >> \o ReadActivePage \o << St("Unlock", "") >> \o
           << St("RLock", "") >> \o ReadActivePage \o << St("RUnlock", "") >> \o
           << St("Lock", "") >> \o ReadActivePage \o << St("Unlock", "") >>
      [] op = "HideAnnotations" ->
           << St("Lock", ""), St("read", "page"), St("Unlock", "") >>
      [] op = "ToggleAnnotations" ->
           << St("RLock", ""), St("read", "page"), St("RUnlock", ""),
              St("read", "page"),
              St("Lock", ""), St("read", "page"), St("Unlock", "") >>

Methods ==
    { "Navigate", "SwitchTab", "CloseTab", "Close", "GetURL", "GetActiveTabID",
      "ListTabs", "TypeInElement", "HideAnnotations", "ToggleAnnotations" }

\* How caller c holds the lock right now.
Held(c) ==
    IF mu.Writer = c THEN "exclusive"
    ELSE IF c \in mu.Readers THEN "shared"
    ELSE "none"

Advance(c) ==
    IF calls[c].Pos = Len(Program(calls[c].Op))
       THEN [calls EXCEPT ![c] = NotInCall]
       ELSE [calls EXCEPT ![c].Pos = @ + 1]

\* A caller enters a method.
Begin(c, op) ==
    /\ calls[c] = NotInCall
    /\ calls' = [calls EXCEPT ![c] = [Op |-> op, Pos |-> 1]]
    /\ UNCHANGED << besidesLock, mu, lastAccess >>

\* The caller's next statement: a lock call, which may have to wait, or an
\* access to a registry field.
Statement(c) ==
    /\ calls[c] # NotInCall
    /\ LET st == Program(calls[c].Op)[calls[c].Pos]
       IN  /\ CASE st.Act = "Lock" ->
                     /\ mu.Writer = NoCaller /\ mu.Readers = {}
                     /\ mu' = [mu EXCEPT !.Writer = c]
                     /\ UNCHANGED lastAccess
                [] st.Act = "RLock" ->
                     /\ mu.Writer = NoCaller
                     /\ mu' = [mu EXCEPT !.Readers = @ \cup { c }]
                     /\ UNCHANGED lastAccess
                [] st.Act = "Unlock" ->
                     /\ mu' = [mu EXCEPT !.Writer = NoCaller]
                     /\ UNCHANGED lastAccess
                [] st.Act = "RUnlock" ->
                     /\ mu' = [mu EXCEPT !.Readers = @ \ { c }]
                     /\ UNCHANGED lastAccess
                [] st.Act \in { "read", "write" } ->
                     /\ lastAccess' = [Caller |-> c, Op |-> calls[c].Op,
                                       Field |-> st.Field,
                                       Write |-> st.Act = "write",
                                       Held |-> Held(c)]
                     /\ UNCHANGED mu
           /\ calls' = Advance(c)
    /\ UNCHANGED besidesLock

LockInit ==
    /\ RunInit
    /\ ParseIdle
    /\ TabsInit
    /\ ExecIdle
    /\ ModalIdle
    /\ HighlightIdle
    /\ WaitIdle
    /\ NewElementMap
    /\ ShotsIdle
    /\ LoopIdle
    /\ MultiIdle
    /\ LockIdle
    /\ LateIdle

LockNext ==
    \/ \E c \in Callers, op \in Methods : Begin(c, op)
    \/ \E c \in Callers : Statement(c)

SpecLock == LockInit /\ [][LockNext]_vars

\* C30: every read or write of the page map, the active tab id or the active
\* page pointer is made while holding the registry lock, exclusively for a
\* write and at least shared for a read.
C30_AccessesHoldTheLock ==
    lastAccess # NoAccess =>
        IF lastAccess.Write
           THEN lastAccess.Held = "exclusive"
           ELSE lastAccess.Held \in { "exclusive", "shared" }

\* ============================================================ the Agent facade
\* How far Start gets: the error it returns, "" for none.
StartOutcomes ==
    { "failed to launch browser", "failed to connect to browser",
      "failed to initialize ADK agent", "ADK agent not initialized",
      "failed to create ADK runner", "" }

\* The fields Start has assigned when it returns err.
StartedAgent(err) ==
    IF err \in { "failed to launch browser", "failed to connect to browser" }
    THEN theAgent
    ELSE [theAgent EXCEPT
             !.browser = TRUE,
             !.rod = "open",
             !.browserAgent = TRUE,
             !.sessionService =
                 @ \/ err \in { "failed to create ADK runner", "" },
             !.runner = @ \/ err = ""]

AgentReturned(c, op, err) ==
    [Caller |-> c, Op |-> op, Err |-> err, AfterClose |-> theAgent.closed]

\* Agent.Start, all of it under a.mu.
AgentStart(c) ==
    /\ agentCalls[c].Pc = "idle"
    /\ IF theAgent.closed
       THEN /\ agentRet' = AgentReturned(c, "Start", "agent is closed")
            /\ UNCHANGED theAgent
       ELSE \E err \in StartOutcomes :
               /\ theAgent' = StartedAgent(err)
               /\ agentRet' = AgentReturned(c, "Start", err)
    /\ UNCHANGED << besidesFacade, agentCalls, driven >>

\* a.browser == nil || a.browserAgent == nil || a.runner == nil ||
\* a.sessionService == nil
NotStarted ==
    \/ ~theAgent.browser
    \/ ~theAgent.browserAgent
    \/ ~theAgent.runner
    \/ ~theAgent.sessionService

\* Agent.Run up to the loop: the check under a.mu, the Unlock, the session.
AgentRunBegin(c) ==
    /\ agentCalls[c].Pc = "idle"
    /\ IF NotStarted
       THEN /\ agentRet' = AgentReturned(c, "Run", "agent not started, call Start() first")
            /\ UNCHANGED agentCalls
       ELSE \/ /\ agentRet' = AgentReturned(c, "Run", "failed to create session")
               /\ UNCHANGED agentCalls
            \/ /\ agentCalls' = [agentCalls EXCEPT
                                    ![c] = [Pc |-> "loop",
                                            AfterClose |-> theAgent.closed]]
               /\ UNCHANGED agentRet
    /\ UNCHANGED << besidesFacade, theAgent, driven >>

\* One event of the loop of Run whose tool uses the browser of the agent.
AgentRunEvent(c) ==
    /\ agentCalls[c].Pc = "loop"
    /\ driven' = [Caller |-> c, Op |-> "Run", Rod |-> theAgent.rod,
                  AfterClose |-> agentCalls[c].AfterClose]
    /\ UNCHANGED << besidesFacade, theAgent, agentCalls, agentRet >>

\* The loop of Run ends; Run returns its Result and a nil error.
AgentRunReturn(c) ==
    /\ agentCalls[c].Pc = "loop"
    /\ agentRet' = [Caller |-> c, Op |-> "Run", Err |-> "",
                    AfterClose |-> agentCalls[c].AfterClose]
    /\ agentCalls' = [agentCalls EXCEPT ![c] = NotRunning]
    /\ UNCHANGED << besidesFacade, theAgent, driven >>

\* What Browser.Navigate returns: on a closed Browser b.rod is nil and
\* createTabLocked dereferences it.
NavigateOutcomes ==
    IF theAgent.rod = "open" THEN { "", "failed to navigate" } ELSE { "panic" }

\* Agent.Navigate, all of it under a.mu.
AgentNavigate(c) ==
    /\ agentCalls[c].Pc = "idle"
    /\ IF ~theAgent.browser
       THEN /\ agentRet' = AgentReturned(c, "Navigate", "agent not started, call Start() first")
            /\ UNCHANGED driven
       ELSE /\ driven' = [Caller |-> c, Op |-> "Navigate", Rod |-> theAgent.rod,
                          AfterClose |-> theAgent.closed]
            /\ \E err \in NavigateOutcomes :
                  agentRet' = AgentReturned(c, "Navigate", err)
    /\ UNCHANGED << besidesFacade, theAgent, agentCalls >>

\* Agent.Close, all of it under a.mu; Browser.Close sets b.rod to nil.
AgentClose(c) ==
    /\ agentCalls[c].Pc = "idle"
    /\ IF theAgent.closed
       THEN /\ agentRet' = AgentReturned(c, "Close", "")
            /\ UNCHANGED theAgent
       ELSE /\ theAgent' = [theAgent EXCEPT
                               !.closed = TRUE,
                               !.rod = IF theAgent.browser THEN "closed" ELSE @]
            /\ \E err \in { "", "close errors" } :
                  agentRet' = [Caller |-> c, Op |-> "Close", Err |-> err,
                               AfterClose |-> FALSE]
    /\ UNCHANGED << besidesFacade, agentCalls, driven >>

AgentInit == RunInit /\ EarlierIdle /\ LateIdle

AgentNext ==
    \/ \E c \in Callers : AgentStart(c)
    \/ \E c \in Callers : AgentRunBegin(c)
    \/ \E c \in Callers : AgentRunEvent(c)
    \/ \E c \in Callers : AgentRunReturn(c)
    \/ \E c \in Callers : AgentNavigate(c)
    \/ \E c \in Callers : AgentClose(c)

SpecAgent == AgentInit /\ [][AgentNext]_vars

\* ------------------------------------------------------------ properties
\* C31: within one Agent at most one task run executes at a time: two
\* overlapping Run calls on the same Agent never have their loops active
\* together.
C31_OneRunAtATime ==
    Cardinality({ c \in Callers : agentCalls[c].Pc = "loop" }) <= 1

\* C38: after Close has returned no Agent operation drives the closed
\* browser: Start fails with "agent is closed", Run and Navigate return an
\* error, and no call begun after Close uses the browser.
C38_ClosedAgentIsNotDriven ==
    /\ driven.AfterClose => driven.Op \notin { "Run", "Navigate" }
    /\ agentRet.AfterClose =>
          /\ agentRet.Op = "Start" => agentRet.Err = "agent is closed"
          /\ agentRet.Op \in { "Run", "Navigate" } =>
                agentRet.Err \notin { "", "panic" }

\* ============================================================ createTabLocked
\* b.rod.Page(proto.TargetCreateTarget{URL: url}): the target is created
\* with the url, so the page is loading it when the handle is returned.
CreateTargetStep(url) ==
    [Cmd |-> "Target.createTarget", Url |-> url, Navigates |-> url # ""]

\* page.SetViewport(&proto.EmulationSetDeviceMetricsOverride{...})
SetViewportStep ==
    [Cmd |-> "Emulation.setDeviceMetricsOverride", Url |-> "", Navigates |-> FALSE]

\* page.WaitLoad()
WaitLoadStep == [Cmd |-> "waitLoad", Url |-> "", Navigates |-> FALSE]

\* createTabLocked: page, err := b.rod.Page(...)
RodPage(url) ==
    /\ creating.Pc = "idle"
    /\ Len(pageSteps) < MaxPages
    /\ \/ /\ creating' = [Pc |-> "idle", Url |-> url, Page |-> NilPage,
                          Err |-> "failed to create page"]
          /\ UNCHANGED pageSteps
       \/ /\ pageSteps' = Append(pageSteps, << CreateTargetStep(url) >>)
          /\ creating' = [Pc |-> "created", Url |-> url,
                          Page |-> Len(pageSteps) + 1, Err |-> ""]
    /\ UNCHANGED << besidesCreate, viewport >>

\* createTabLocked from "Set viewport" to its return: the override when a
\* viewport is configured, then the tab id and the three stores.
SetViewport ==
    /\ creating.Pc = "created"
    /\ IF viewport
       THEN \/ /\ creating' = [creating EXCEPT !.Pc = "idle",
                                               !.Err = "failed to set viewport"]
               /\ UNCHANGED pageSteps
            \/ /\ pageSteps' = [pageSteps EXCEPT
                                   ![creating.Page] = Append(@, SetViewportStep)]
               /\ creating' = [creating EXCEPT !.Pc = "stored"]
       ELSE /\ creating' = [creating EXCEPT !.Pc = "stored"]
            /\ UNCHANGED pageSteps
    /\ UNCHANGED << besidesCreate, viewport >>

\* NewTab and Navigate after createTabLocked: page.WaitLoad()
WaitLoad ==
    /\ creating.Pc = "stored"
    /\ pageSteps' = [pageSteps EXCEPT ![creating.Page] = Append(@, WaitLoadStep)]
    /\ \E err \in { "", "page load failed" } :
          creating' = [creating EXCEPT !.Pc = "idle", !.Err = err]
    /\ UNCHANGED << besidesCreate, viewport >>

CreateInit ==
    /\ RunInit
    /\ EarlierIdle
    /\ FacadeIdle
    /\ ListIdle
    /\ ScrollIdle
    /\ viewport \in BOOLEAN
    /\ creating = NotCreating
    /\ pageSteps = << >>

CreateNext ==
    \/ \E url \in Urls : RodPage(url)
    \/ SetViewport
    \/ WaitLoad

SpecCreate == CreateInit /\ [][CreateNext]_vars

\* ------------------------------------------------------------ properties
\* The positions in steps of the commands that satisfy Test.
PositionsOf(steps, Test(_)) == { i \in DOMAIN steps : Test(steps[i]) }

IsOverride(step) == step = SetViewportStep

StartsNavigation(step) == step.Navigates

\* C32: when a tab is created, the viewport override is applied after the
\* page handle exists and before the page starts navigating to the url.
C32_ViewportBeforeNavigation ==
    \A p \in DOMAIN pageSteps :
        \A i \in PositionsOf(pageSteps[p], IsOverride) :
            /\ i > 1
            /\ \A j \in PositionsOf(pageSteps[p], StartsNavigation) : i < j

\* ============================================================ Agent.Run, again
\* A step of ProcessPart that delivered a part with a function call or a
\* function response.
ToolPartDelivered ==
    /\ pc = "running"
    /\ nparts' = nparts + 1
    /\ event'.Kind = "part"
    /\ (HasCall(event'.Part) \/ HasResp(event'.Part))

\* C33: the pending entry of a tool name is removed when a response of that
\* tool is processed, whether or not it reports success, and an entry appears
\* only with a call of that name: a later response can promote only an entry
\* made by a call that came after the earlier response.
C33_ResponseClearsPending ==
    [][ /\ RespDelivered => ~Has(pendingSteps', event'.Part.Resp.Name)
        /\ \A n \in ToolNames :
              (pc = "running" /\ pc' = "running"
               /\ ~Has(pendingSteps, n) /\ Has(pendingSteps', n))
                 => (nparts' = nparts + 1 /\ event'.Part.Call.Name = n) ]_vars

\* A click response without success has been processed after two click
\* calls, and no click entry is pending although a call is still unanswered.
C33_Witness ==
    /\ pc = "running"
    /\ event.Kind = "part"
    /\ event.Part.Resp.Name = "click"
    /\ ~RespSuccess(event.Part.Resp)
    /\ outstanding["click"] = 1
    /\ ~Has(pendingSteps, "click")

\* C34: every successful response of a tool other than done and
\* get_page_state appends exactly one Step, also when several calls of the
\* tool were outstanding, and the Step is the one of a call of that tool
\* that was still unanswered.
C34_EverySuccessfulResponseAddsItsStep ==
    [][ (RespDelivered /\ RespSuccess(event'.Part.Resp)
         /\ event'.Part.Resp.Name \notin { "done", "get_page_state" })
          => /\ Len(result'.Steps) = Len(result.Steps) + 1
             /\ \E c \in Calls :
                   /\ c.Name = event'.Part.Resp.Name
                   /\ result'.Steps = Append(result.Steps, CallStep(c)) ]_vars

\* C36: after a done call has been observed, no later tool call or tool
\* response of the same stream changes Result.Success or Result.Data or
\* appends a Step.
C36_DoneIsTerminal ==
    [][ (doneToolCalled /\ ToolPartDelivered)
          => /\ result'.Success = result.Success
             /\ result'.Data = result.Data
             /\ result'.Steps = result.Steps ]_vars

\* ============================================================ TypeInElement, again
\* C35: TypeInElement is atomic with respect to tab switching: the click and
\* the text insertion of a call act on the page that was active when the
\* call looked up the element, also when another caller switches tabs
\* meanwhile.
C35_TypesIntoTheTabLookedUp ==
    pageCall.Op = "TypeInElement" =>
        \A i \in 1..Len(ops) :
            ops[i].Kind \in PointerKinds \cup { "insertText" }
                => ops[i].Page = pageCall.Found

\* ============================================================ tab registry, again
\* C37: when NewTab or Navigate returns an error the registry is unchanged:
\* no tab has been added and the active tab is the one before the call.
C37_FailedCallLeavesRegistry ==
    [][ ((TabCallStep("NewTab") \/ TabCallStep("Navigate")) /\ tabCall'.Err # "")
          => /\ pages' = pages
             /\ activeTabID' = activeTabID ]_vars

\* What createTabLocked can return an error with, and page.Navigate.
BeforeStoreErrors ==
    { "failed to create page", "failed to set viewport", "failed to navigate" }

\* C37 amended: when NewTab or Navigate returns an error other than a failed
\* wait for the page load, the registry is unchanged; when the wait for the
\* load fails, a tab the call created stays registered and active.
C37_FailedBeforeStoreLeavesRegistry ==
    [][ ((TabCallStep("NewTab") \/ TabCallStep("Navigate")) /\ tabCall'.Err # "")
          => IF tabCall'.Err \in BeforeStoreErrors
             THEN pages' = pages /\ activeTabID' = activeTabID
             ELSE /\ tabCall'.Err \in { "page load failed",
                                        "failed to wait for page load" }
                  /\ \/ pages' = pages /\ activeTabID' = activeTabID
                     \/ /\ pagesCreated' = pagesCreated + 1
                        /\ activeTabID' \in DOMAIN pages'
                        /\ pages'[activeTabID'] = pagesCreated'
                        /\ page' = pagesCreated' ]_vars

\* NewTab has failed on the viewport override with two tabs open, and the
\* registry still holds those two tabs.
C37_Witness ==
    /\ tabCall.Op = "NewTab"
    /\ tabCall.Err = "failed to set viewport"
    /\ Cardinality(DOMAIN pages) = 2
    /\ pagesCreated = 3
    /\ tabCall.Active = activeTabID

\* ============================================================ the list_tabs tool
\* listTabsHandler: tabs := a.browser.ListTabs(...), under RLock, on pages
\* that all answer page.Info().
ListTabsHandlerList ==
    /\ listing.Pc \in { "idle", "returned" }
    /\ listing' = [NotListing EXCEPT !.Pc = "listed",
                                     !.Open = DOMAIN pages,
                                     !.Tabs = ListTabs]
    /\ UNCHANGED << besidesList, tabVars >>

\* Browser.GetActiveTabID, under RLock.
GetActiveTabID == activeTabID

\* listTabsHandler: activeTab := a.browser.GetActiveTabID(), the loop that
\* sets Active: tab.ID == activeTab, and the return.
ListTabsHandlerReturn ==
    /\ listing.Pc = "listed"
    /\ listing' = [listing EXCEPT
                      !.Pc = "returned",
                      !.ActiveTab = GetActiveTabID,
                      !.Active = { t \in listing.Tabs : t = GetActiveTabID }]
    /\ UNCHANGED << besidesList, tabVars >>

ListInit == Init

ListNext ==
    \/ ListTabsHandlerList
    \/ ListTabsHandlerReturn
    \/ \E url \in Urls : NewTab(url)
    \/ \E tabID \in TabIDs : SwitchTab(tabID)
    \/ \E tabID \in TabIDs : CloseTab(tabID)

SpecList == ListInit /\ [][ListNext]_vars

\* ------------------------------------------------------------ properties
\* C39: the list_tabs response marks exactly one listed tab as active
\* whenever at least one tab is open, also when NewTab, SwitchTab or CloseTab
\* runs while the tabs are being listed.
C39_ExactlyOneActiveTab ==
    (listing.Pc = "returned" /\ listing.Open # {}) =>
        Cardinality(listing.Active) = 1

\* ============================================================ the scroll tool
\* The scroll requests the model sends: the JSON may name element_id or
\* leave it out, and ScrollInput.ElementID is 0 when it is left out.
ScrollRequests ==
    { req \in [Direction : { "up", "down", "left" }, Amount : { 0, 300 },
               Given : BOOLEAN, ElementID : 0..(MaxElements - 1),
               AutoDetect : BOOLEAN] :
        req.Given \/ req.ElementID = 0 }

\* ScrollInput.ElementID as decoded from the request.
DecodedElementID(req) == IF req.Given THEN req.ElementID ELSE 0

\* amount := input.Amount; if amount == 0 { amount = 500 }
ScrollAmount(req) == IF req.Amount = 0 THEN 500 ELSE req.Amount

\* The switch on input.Direction.
ScrollDeltaY(req) ==
    IF req.Direction = "up" THEN 0 - ScrollAmount(req) ELSE ScrollAmount(req)

\* Where the request goes: input.ElementID > 0, else input.AutoDetect, else
\* the page.
ScrollRoute(req) ==
    IF DecodedElementID(req) > 0 THEN "element"
    ELSE IF req.AutoDetect THEN "auto"
    ELSE "page"

\* What ScrollInModalAuto can return as the element it scrolled: -1 for the
\* page, else the index of the modal.
AutoScrolled == (-1)..(MaxElements - 1)

\* scrollHandler, from the direction switch to its return.
scrollHandler(req) ==
    /\ IF req.Direction \notin { "up", "down" }
       THEN scrollCall' =
               [NoScroll EXCEPT !.Called = TRUE, !.Given = req.Given,
                                !.ElementID = req.ElementID,
                                !.AutoDetect = req.AutoDetect,
                                !.Direction = req.Direction,
                                !.Route = "none", !.Failed = TRUE]
       ELSE \E failed \in BOOLEAN, auto \in AutoScrolled :
               LET route == ScrollRoute(req)
                   target == IF route = "element" THEN DecodedElementID(req)
                             ELSE IF route = "auto" THEN auto
                             ELSE -1
                   elementScrolled == IF route = "page" THEN 0 ELSE target
               IN  /\ (route # "auto" => auto = -1)
                   /\ scrollCall' =
                         [Called |-> TRUE, Given |-> req.Given,
                          ElementID |-> req.ElementID,
                          AutoDetect |-> req.AutoDetect,
                          Direction |-> req.Direction,
                          DeltaY |-> ScrollDeltaY(req),
                          Route |-> route, Target |-> target,
                          Failed |-> failed, Success |-> ~failed,
                          ElementScrolled |-> IF failed THEN 0 ELSE elementScrolled]
    /\ UNCHANGED besidesScroll

ScrollInit == RunInit /\ EarlierIdle /\ LateIdle

ScrollNext == \E req \in ScrollRequests : scrollHandler(req)

SpecScroll == ScrollInit /\ [][ScrollNext]_vars

\* ------------------------------------------------------------ properties
\* C40: a scroll request that names an explicit element index scrolls inside
\* that element for every valid element index, index 0 included, and reports
\* that element as the one scrolled.
C40_ExplicitIndexScrollsThatElement ==
    ( /\ scrollCall.Called
      /\ scrollCall.Given
      /\ scrollCall.Direction \in { "up", "down" }
      /\ ~scrollCall.Failed ) =>
        /\ scrollCall.Route = "element"
        /\ scrollCall.Target = scrollCall.ElementID
        /\ scrollCall.Success
        /\ scrollCall.ElementScrolled = scrollCall.ElementID

====
